---- MODULE Spec2Model ----
(***************************************************************************)
(* Drift OCI registry: the distribution handlers (uploads, blobs,          *)
(* manifests) over the filesystem storage backend, and the garbage         *)
(* collector.  Strings of the program (digests, tags, upload ids, bodies)  *)
(* are sequences of small integers (characters / bytes).                   *)
(***************************************************************************)
EXTENDS Integers, Sequences, FiniteSets, TLC

VARIABLES
    now,        \* wall clock (hours), read by the filesystem and by Utc::now()
    blobs,      \* <root>/blobs/<xx>/<digest>    : digest string -> file
    uploads,    \* <root>/uploads/<uuid>         : upload id     -> file
    manifests,  \* <root>/manifests/<repo>/<ref> : repo -> (file name -> file)
    issued,     \* upload ids handed out by start_upload (the handler keeps none)
    accepted,   \* per upload id: the chunk bodies the server answered 2xx, in order
    offpath,    \* per upload id: its requests were not just start, then PATCHes
                \* without Content-Range
    last,       \* the last HTTP request and its response
    gc,         \* per GC runner: the locals of run_garbage_collection
    birthtime,  \* whether the platform reports file birth times
    inflight,   \* per client: the request whose storage calls are under way
    bucket      \* the S3 bucket of S3Storage: object key -> bytes

vars == <<now, blobs, uploads, manifests, issued, accepted, offpath, last, gc, birthtime,
         inflight, bucket>>

----------------------------------------------------------------------------
(* Bounds *)

MaxLen == 2          \* longest blob body / staging file, in bytes
MaxBlobs == 2        \* blobs the store holds at once
MaxTime == 2         \* the clock stops here

(* GarbageCollectorConfig fields, set to values the bounds above can exceed *)
grace_period_hours == 1
max_blobs_per_run == 1

----------------------------------------------------------------------------
(* Bytes and strings *)

Byte == {1}             \* the byte value clients send; a hole in a file reads 0

RECURSIVE SeqsUpTo(_, _)
SeqsUpTo(S, n) ==
    IF n = 0 THEN {<<>>}
    ELSE LET shorter == SeqsUpTo(S, n - 1)
         IN  shorter \cup {Append(s, x) : s \in {t \in shorter : Len(t) = n - 1}, x \in S}

Bodies == SeqsUpTo(Byte, MaxLen)

Max(a, b) == IF a >= b THEN a ELSE b

(* format!("sha256:{:x}", Sha256::digest(data)): an injective rendering of  *)
(* the content as a digest string; "sh:" stands for the "sha256:" prefix    *)
(* and every content byte yields one hex character.                        *)
Sha256Prefix == <<115, 104, 58>>
HexChar(b) == 200 + b
Sha256(data) == Sha256Prefix \o [i \in 1..Len(data) |-> HexChar(data[i])]

(* A well-formed digest string that is the hash of no modelled content. *)
BogusDigest == Sha256Prefix \o <<199>>

----------------------------------------------------------------------------
(* Files *)

File(data, created, modified) ==
    [data |-> data, created |-> created, modified |-> modified]

Remove(dir, key) == [k \in (DOMAIN dir) \ {key} |-> dir[k]]
Store(dir, key, file) == [k \in (DOMAIN dir) \cup {key} |-> IF k = key THEN file ELSE dir[k]]

(* file.seek(SeekFrom::Start(off)); file.write_all(data): bytes land at     *)
(* off.., the rest of the file is kept, a hole reads as zero.              *)
WriteAt(old, off, data) ==
    IF data = <<>> THEN old
    ELSE [i \in 1..Max(Len(old), off + Len(data)) |->
            IF i > off /\ i <= off + Len(data) THEN data[i - off]
            ELSE IF i <= Len(old) THEN old[i]
            ELSE 0]

----------------------------------------------------------------------------
(* Identifiers the clients use *)

UUIDs == {<<117, 1>>}                                \* "u1"
Repos == {<<97>>}                                    \* "a"
Tags == {<<118, 1>>, <<118, 2>>}                     \* "v1", "v2"

(* the ?digest= values of the PUT finalizer *)
ClaimedDigests == {Sha256(b) : b \in Bodies} \cup {BogusDigest}

(* Content-Range request header: absent, "bytes start-end/total",           *)
(* "bytes start-end" (no total) or something else                           *)
NoRange == [kind |-> "absent", start |-> 0, end |-> 0]
RangeHeaders(body) ==
    {NoRange} \cup
    {[kind |-> k, start |-> s, end |-> s + Max(Len(body), 1) - 1] :
        k \in {"bytes", "nototal"}, s \in 0..(MaxLen - Len(body))}

(* Requests served side by side: the server runs every handler as a task *)
(* of its own and the storage backends hold no lock.                      *)
Clients == {1, 2}

\* the file an open descriptor refers to: a path may be renamed or removed
\* while the descriptor stays open
NoFd == [kind |-> "none", key |-> <<>>]
Fd(kind, key) == [kind |-> kind, key |-> key]

NoRequest ==
    [op |-> "none", pc |-> "idle", key |-> <<>>, range |-> <<0, 0>>, body |-> <<>>,
     digest |-> <<>>, fd |-> NoFd, base |-> <<>>, read |-> <<>>]

----------------------------------------------------------------------------
(* HTTP responses *)

\* impl IntoResponse for RegistryError
StatusOf(code) ==
    CASE code = "NAME_UNKNOWN" -> 404
      [] code = "MANIFEST_UNKNOWN" -> 404
      [] code = "BLOB_UNKNOWN" -> 404
      [] code = "UNAUTHORIZED" -> 401
      [] code = "DENIED" -> 403
      [] code = "UNSUPPORTED" -> 400
      [] OTHER -> 500

\* the handler that answered last, its status, its error code and the end
\* of its Range header "0-<end>" (NoRangeHeader when it sends none)
NoRangeHeader == 0 - 1

NoResponse == [op |-> "none", status |-> 0, code |-> "", range |-> NoRangeHeader]

Response(op, status, code) ==
    [op |-> op, status |-> status, code |-> code, range |-> NoRangeHeader]

\* a 2xx response with a Range header
RangeResponse(op, status, end) == [op |-> op, status |-> status, code |-> "", range |-> end]

\* the handler panicked: the connection is closed without a response
Panicked(op) == [op |-> op, status |-> 0, code |-> "panic", range |-> NoRangeHeader]

U64_MAX == 2147483647          \* stands for u64::MAX, 2^64 - 1

\* format!("0-{}", range.1 - 1) on a u64: for range.1 = 0 the subtraction
\* panics where overflow checks are compiled in and wraps where they are not
upload_chunk_responses(range) ==
    IF range[2] = 0
    THEN {Panicked("upload_chunk"), RangeResponse("upload_chunk", 202, U64_MAX)}
    ELSE {RangeResponse("upload_chunk", 202, range[2] - 1)}

----------------------------------------------------------------------------
(* FilesystemStorage: blobs and uploads *)

\* A blob file, with the time it was put at its path; `committed` is history
\* kept for the properties, the file system does not record it.
Blob(file, committed) ==
    [data |-> file.data, created |-> file.created, modified |-> file.modified,
     committed |-> committed]

\* FilesystemStorage::put_blob: fs::write creates or truncates the file
fs_put_blob(dir, digest, data) ==
    Store(dir, digest,
          Blob(File(data, IF digest \in DOMAIN dir THEN dir[digest].created ELSE now, now),
               now))

\* FilesystemStorage::get_blob: Some(bytes) or None
fs_get_blob(digest) ==
    IF digest \in DOMAIN blobs
    THEN [some |-> TRUE, data |-> blobs[digest].data]
    ELSE [some |-> FALSE, data |-> <<>>]

\* FilesystemStorage::blob_exists
fs_blob_exists(digest) == digest \in DOMAIN blobs

\* FilesystemStorage::delete_blob: a missing file is Ok
fs_delete_blob(dir, digest) == Remove(dir, digest)

\* FilesystemStorage::get_upload_url
fs_get_upload_url(uuid) == uuid \in DOMAIN uploads

\* FilesystemStorage::put_upload_chunk: open(create, write), seek to range.0, write
fs_put_upload_chunk(dir, uuid, range, data) ==
    IF uuid \in DOMAIN dir
    THEN Store(dir, uuid,
               File(WriteAt(dir[uuid].data, range[1], data), dir[uuid].created,
                    IF data = <<>> THEN dir[uuid].modified ELSE now))
    ELSE Store(dir, uuid, File(WriteAt(<<>>, range[1], data), now, now))

\* FilesystemStorage::complete_upload: rename(uploads/<uuid>, blobs/<xx>/<digest>);
\* the result is Err when the staging file does not exist
fs_complete_upload(ups, bls, uuid, digest) ==
    IF uuid \in DOMAIN ups
    THEN [ok |-> TRUE, uploads |-> Remove(ups, uuid),
          blobs |-> Store(bls, digest, Blob(ups[uuid], now))]
    ELSE [ok |-> FALSE, uploads |-> ups, blobs |-> bls]

\* metadata.created().or_else(|_| metadata.modified()): the birth time where
\* the platform reports one, else the time of the last write
created_or_modified(file) == IF birthtime THEN file.created ELSE file.modified

\* FilesystemStorage::get_blob_metadata: Err when the file does not exist
fs_get_blob_metadata(digest) ==
    IF digest \in DOMAIN blobs
    THEN [ok |-> TRUE, size |-> Len(blobs[digest].data),
          created_at |-> created_or_modified(blobs[digest])]
    ELSE [ok |-> FALSE, size |-> 0, created_at |-> 0]

\* cancel_upload with the NotFound arm left out: removing a missing file is
\* an error
fs_cancel_upload_missing_is_error(dir, uuid) ==
    [ok |-> uuid \in DOMAIN dir, uploads |-> Remove(dir, uuid)]

\* FilesystemStorage::cancel_upload: fs::remove_file, a missing file is Ok
fs_cancel_upload(dir, uuid) == [ok |-> TRUE, uploads |-> Remove(dir, uuid)]

----------------------------------------------------------------------------
(* Upload handlers (api/registry/uploads.rs) *)

\* parse_content_range: "bytes start-end/total" gives (start, end + 1), else (0, 0)
parse_content_range(h) ==
    IF h.kind = "bytes" THEN <<h.start, h.end + 1>> ELSE <<0, 0>>

\* POST /v2/<name>/blobs/uploads/
start_upload(name, uuid) ==
    /\ uuid \notin issued
    /\ issued' = issued \cup {uuid}
    /\ last' = RangeResponse("start_upload", 202, 0)
    /\ UNCHANGED <<now, blobs, uploads, manifests, accepted, offpath, gc, birthtime, inflight, bucket>>

\* POST /v2/<name>/blobs/uploads/?digest=<digest> with a body: the route
\* hands every POST to start_upload, which extracts the path alone
post_upload(name, uuid, digest, body) == start_upload(name, uuid)

\* PATCH /v2/<name>/blobs/uploads/<uuid>
upload_chunk(name, uuid, header, body) ==
    LET range == IF header.kind = "absent" THEN <<0, Len(body)>>
                 ELSE parse_content_range(header)
    IN  /\ Len(accepted[uuid]) + Len(body) <= MaxLen
        /\ range[1] + Len(body) <= MaxLen
        /\ uploads' = fs_put_upload_chunk(uploads, uuid, range, body)
        /\ \E response \in upload_chunk_responses(range) :
              /\ last' = response
              /\ accepted' = [accepted EXCEPT
                                 ![uuid] = IF response.status = 202 THEN @ \o body ELSE @]
        /\ offpath' = [offpath EXCEPT ![uuid] = @ \/ header.kind # "absent" \/ uuid \notin issued]
        /\ UNCHANGED <<now, blobs, manifests, issued, gc, birthtime, inflight, bucket>>

\* PUT /v2/<name>/blobs/uploads/<uuid>?digest=<digest>
complete_upload(name, uuid, digest, body) ==
    /\ Len(accepted[uuid]) + Len(body) <= MaxLen
    /\ IF digest = <<>>
       THEN /\ last' = Response("complete_upload", StatusOf("DIGEST_INVALID"),
                                "DIGEST_INVALID")
            /\ offpath' = [offpath EXCEPT ![uuid] = TRUE]
            /\ UNCHANGED <<blobs, uploads, accepted>>
       ELSE LET staged == IF body # <<>>
                          THEN fs_put_upload_chunk(uploads, uuid, <<0, Len(body)>>, body)
                          ELSE uploads
                sent == accepted[uuid] \o body
                r == fs_complete_upload(staged, blobs, uuid, digest)
            IN  /\ Cardinality(DOMAIN r.blobs) <= MaxBlobs
                /\ uploads' = r.uploads
                /\ blobs' = r.blobs
                /\ accepted' = [accepted EXCEPT ![uuid] = IF r.ok THEN <<>> ELSE sent]
                /\ offpath' = [offpath EXCEPT ![uuid] = TRUE]
                /\ last' = IF r.ok
                           THEN Response("complete_upload", 201, "")
                           ELSE Response("complete_upload", StatusOf("UNKNOWN"), "UNKNOWN")
    /\ UNCHANGED <<now, manifests, issued, gc, birthtime, inflight, bucket>>

\* GET /v2/<name>/blobs/uploads/<uuid>
get_upload_status(name, uuid) ==
    IF fs_get_upload_url(uuid)
    THEN [status |-> 204, code |-> "", range |-> 0]
    ELSE [status |-> StatusOf("BLOB_UPLOAD_UNKNOWN"), code |-> "BLOB_UPLOAD_UNKNOWN",
          range |-> 0]

\* DELETE /v2/<name>/blobs/uploads/<uuid>
cancel_upload(name, uuid) ==
    /\ uploads' = fs_cancel_upload(uploads, uuid).uploads
    /\ accepted' = [accepted EXCEPT ![uuid] = <<>>]
    /\ offpath' = [offpath EXCEPT ![uuid] = TRUE]
    /\ last' = IF fs_cancel_upload(uploads, uuid).ok
               THEN Response("cancel_upload", 204, "")
               ELSE Response("cancel_upload", StatusOf("UNKNOWN"), "UNKNOWN")
    /\ UNCHANGED <<now, blobs, manifests, issued, gc, birthtime, inflight, bucket>>

----------------------------------------------------------------------------
(* Blob handlers (api/registry/blobs.rs) *)

\* GET /v2/<name>/blobs/<digest>
get_blob(name, digest) ==
    LET r == fs_get_blob(digest)
    IN  IF r.some
        THEN [status |-> 200, code |-> "", data |-> r.data, digest |-> digest]
        ELSE [status |-> StatusOf("BLOB_UNKNOWN"), code |-> "BLOB_UNKNOWN",
              data |-> <<>>, digest |-> <<>>]

\* DELETE /v2/<name>/blobs/<digest>
delete_blob(name, digest) ==
    /\ blobs' = fs_delete_blob(blobs, digest)
    /\ last' = Response("delete_blob", 202, "")
    /\ UNCHANGED <<now, uploads, manifests, issued, accepted, offpath, gc, birthtime, inflight, bucket>>

\* StorageBackend::put_blob called directly, by a caller that keeps the
\* contract's precondition sha256(data) = digest
put_blob(data) ==
    /\ Cardinality(DOMAIN blobs \cup {Sha256(data)}) <= MaxBlobs
    /\ blobs' = fs_put_blob(blobs, Sha256(data), data)
    /\ last' = Response("put_blob", 0, "")
    /\ UNCHANGED <<now, uploads, manifests, issued, accepted, offpath, gc, birthtime, inflight, bucket>>


----------------------------------------------------------------------------
(* Manifest documents.  A JSON manifest is written '{' entries '}', an     *)
(* entry being a field name, the digest string it carries, and '"'.        *)

LBrace == 123
RBrace == 125
Quote == 34
KConfig == 99              \* "config": {"digest": ...}
KLayers == 108             \* one element of "layers": [{"digest": ...}]
KManifests == 109          \* one element of "manifests": [{"digest": ...}]
KForeignLayers == 102      \* one element of "foreignLayers": [{"digest": ...}]
KOther == 120              \* any other field that carries a digest
Keys == {KConfig, KLayers, KManifests, KForeignLayers, KOther}

RECURSIVE JsonEntries(_)
JsonEntries(entries) ==
    IF entries = <<>> THEN <<>>
    ELSE <<Head(entries)[1]>> \o Head(entries)[2] \o <<Quote>> \o JsonEntries(Tail(entries))

\* the bytes of the document with the given <<field, digest>> entries
JsonDoc(entries) == <<LBrace>> \o JsonEntries(entries) \o <<RBrace>>

RECURSIVE ParseEntries(_)
ParseEntries(bytes) ==
    IF bytes = <<>> THEN [ok |-> TRUE, entries |-> <<>>]
    ELSE IF Head(bytes) \notin Keys \/ ~(\E i \in 2..Len(bytes) : bytes[i] = Quote)
    THEN [ok |-> FALSE, entries |-> <<>>]
    ELSE LET q == CHOOSE i \in 2..Len(bytes) :
                      bytes[i] = Quote /\ \A j \in 2..(i - 1) : bytes[j] # Quote
             rest == ParseEntries(SubSeq(bytes, q + 1, Len(bytes)))
         IN  [ok |-> rest.ok,
              entries |-> <<<<Head(bytes), SubSeq(bytes, 2, q - 1)>>>> \o rest.entries]

\* serde_json::from_slice::<serde_json::Value>
serde_json_from_slice(bytes) ==
    IF Len(bytes) >= 2 /\ bytes[1] = LBrace /\ bytes[Len(bytes)] = RBrace
    THEN ParseEntries(SubSeq(bytes, 2, Len(bytes) - 1))
    ELSE [ok |-> FALSE, entries |-> <<>>]

\* GarbageCollector::extract_blob_references
extract_blob_references(manifest) ==
    LET field(k) == {manifest.entries[i][2] :
                        i \in {j \in 1..Len(manifest.entries) : manifest.entries[j][1] = k}}
    IN  field(KConfig) \cup field(KLayers) \cup field(KManifests) \cup field(KForeignLayers)

----------------------------------------------------------------------------
(* Strings in lexicographic order *)

RECURSIVE LexLess(_, _)
LexLess(a, b) ==
    IF b = <<>> THEN FALSE
    ELSE IF a = <<>> THEN TRUE
    ELSE IF Head(a) # Head(b) THEN Head(a) < Head(b)
    ELSE LexLess(Tail(a), Tail(b))

RECURSIVE Sorted(_)
Sorted(S) ==
    IF S = {} THEN <<>>
    ELSE LET least == CHOOSE x \in S : \A y \in S \ {x} : LexLess(x, y)
         IN  <<least>> \o Sorted(S \ {least})

----------------------------------------------------------------------------
(* FilesystemStorage: manifests.  manifests[repo] is the directory          *)
(* <root>/manifests/<repo>, a map from file name (tag or digest) to file.   *)

fs_repo_dir(dir, repo) == IF repo \in DOMAIN dir THEN dir[repo] ELSE [k \in {} |-> 0]

\* put_manifest opening the file for append instead of fs::write: the bytes
\* are added to those the file holds
fs_put_manifest_append(dir, repo, reference, data) ==
    LET old == fs_repo_dir(dir, repo)
    IN  Store(dir, repo,
              Store(old, reference,
                    IF reference \in DOMAIN old
                    THEN File(old[reference].data \o data, old[reference].created, now)
                    ELSE File(data, now, now)))

\* FilesystemStorage::put_manifest: create_dir_all(parent), fs::write
fs_put_manifest(dir, repo, reference, data) ==
    LET old == fs_repo_dir(dir, repo)
    IN  Store(dir, repo,
              Store(old, reference,
                    File(data, IF reference \in DOMAIN old THEN old[reference].created
                               ELSE now, now)))

\* FilesystemStorage::get_manifest: Some(bytes) or None
fs_get_manifest(repo, reference) ==
    IF reference \in DOMAIN fs_repo_dir(manifests, repo)
    THEN [some |-> TRUE, data |-> manifests[repo][reference].data]
    ELSE [some |-> FALSE, data |-> <<>>]

\* FilesystemStorage::delete_manifest: a missing file is Ok, the directory stays
fs_delete_manifest(dir, repo, reference) ==
    IF repo \in DOMAIN dir THEN Store(dir, repo, Remove(dir[repo], reference)) ELSE dir

\* FilesystemStorage::list_repositories
fs_list_repositories == Sorted(DOMAIN manifests)

\* FilesystemStorage::list_tags: the name of every file of the directory
fs_list_tags(repo) == Sorted(DOMAIN fs_repo_dir(manifests, repo))

\* FilesystemStorage::list_manifests: the digest of the content of every file
fs_list_manifests(repo) ==
    LET names == fs_list_tags(repo)
    IN  [i \in 1..Len(names) |-> Sha256(manifests[repo][names[i]].data)]

\* FilesystemStorage::get_manifest_by_digest: the first file whose content
\* hashes to the digest; Err when there is none
fs_get_manifest_by_digest(repo, digest) ==
    LET names == fs_list_tags(repo)
        hits == {i \in 1..Len(names) : Sha256(manifests[repo][names[i]].data) = digest}
    IN  IF hits = {} THEN [ok |-> FALSE, data |-> <<>>]
        ELSE [ok |-> TRUE,
              data |-> manifests[repo][names[CHOOSE i \in hits : \A j \in hits : i <= j]].data]

\* FilesystemStorage::get_manifest_digest
fs_get_manifest_digest(repo, reference) ==
    LET r == fs_get_manifest(repo, reference)
    IN  IF r.some THEN [ok |-> TRUE, digest |-> Sha256(r.data)]
        ELSE [ok |-> FALSE, digest |-> <<>>]

\* FilesystemStorage::get_manifest_metadata: of the first file whose content
\* hashes to the digest
fs_get_manifest_metadata(repo, digest) ==
    LET names == fs_list_tags(repo)
        hits == {i \in 1..Len(names) : Sha256(manifests[repo][names[i]].data) = digest}
    IN  IF hits = {} THEN [ok |-> FALSE, created_at |-> 0, size |-> 0]
        ELSE LET f == manifests[repo][names[CHOOSE i \in hits : \A j \in hits : i <= j]]
             IN  [ok |-> TRUE, created_at |-> created_or_modified(f), size |-> Len(f.data)]

----------------------------------------------------------------------------
(* Manifest handlers (api/registry/manifests.rs) *)

\* Content-Type values, cut where the handler's two patterns end
OciManifest == <<"application/vnd.oci.image.manifest", ".v1+json">>
OciIndex == <<"application/vnd.oci.image.index.v1+json">>
DockerManifestV2 == <<"application/vnd.docker.distribution.manifest", ".v2+json">>
DockerManifestList == <<"application/vnd.docker.distribution.manifest", ".list.v2+json">>
DockerManifestV1 == <<"application/vnd.docker.distribution.manifest", ".v1+json">>
OciManifestUpper == <<"APPLICATION/VND.OCI.IMAGE.MANIFEST", ".V1+JSON">>
TextPlain == <<"text/plain">>
NoContentType == <<>>
ContentTypes ==
    {OciManifest, OciIndex, DockerManifestV2, DockerManifestList, DockerManifestV1,
     OciManifestUpper, TextPlain, NoContentType}

\* str::contains
Contains(content_type, pattern) == \E i \in 1..Len(content_type) : content_type[i] = pattern

\* PUT /v2/<name>/manifests/<reference>
put_manifest(name, reference, content_type, body) ==
    /\ IF /\ ~Contains(content_type, "application/vnd.docker.distribution.manifest")
          /\ ~Contains(content_type, "application/vnd.oci.image.manifest")
       THEN /\ last' = Response("put_manifest", StatusOf("UNSUPPORTED"), "UNSUPPORTED")
            /\ UNCHANGED manifests
       ELSE /\ manifests' = fs_put_manifest(manifests, name, reference, body)
            /\ last' = Response("put_manifest", 201, "")
    /\ UNCHANGED <<now, blobs, uploads, issued, accepted, offpath, gc, birthtime, inflight, bucket>>

\* GET /v2/<name>/manifests/<reference>
get_manifest(name, reference) ==
    LET r == fs_get_manifest(name, reference)
    IN  IF r.some
        THEN [status |-> 200, code |-> "", data |-> r.data, digest |-> Sha256(r.data)]
        ELSE [status |-> StatusOf("MANIFEST_UNKNOWN"), code |-> "MANIFEST_UNKNOWN",
              data |-> <<>>, digest |-> <<>>]

\* DELETE /v2/<name>/manifests/<reference>
delete_manifest(name, reference) ==
    /\ manifests' = fs_delete_manifest(manifests, name, reference)
    /\ last' = Response("delete_manifest", 202, "")
    /\ UNCHANGED <<now, blobs, uploads, issued, accepted, offpath, gc, birthtime, inflight, bucket>>

----------------------------------------------------------------------------
(* Garbage collector (garbage_collector.rs, api/admin.rs) *)

GCRunners == {"scheduler", "admin"}

dry_run_default == FALSE       \* GarbageCollectorConfig::default().dry_run

\* One run of run_garbage_collection: its position, its locals, its metrics.
\* `started` (the time the run began), `removed` (the blobs the run took out
\* of the store) and `unread` (the blobs referenced by manifests the run
\* failed to read) are history kept for the properties.
IdleGC ==
    [pc |-> "idle", dry_run |-> FALSE, started |-> 0, referenced |-> {},
     all_blobs |-> <<>>, orphaned |-> <<>>, next |-> 1,
     orphaned_blobs_found |-> 0, deleted_count |-> 0, bytes_freed |-> 0,
     orphaned_manifests_found |-> 0, manifests_deleted |-> 0,
     removed |-> {}, unread |-> {}]

Active(g) == gc[g].pc \notin {"idle", "done"}

\* the orders in which read_dir may yield the entries of a directory
Orderings(S) ==
    {order \in [1..Cardinality(S) -> S] :
        \A i, j \in 1..Cardinality(S) : i # j => order[i] # order[j]}

Range(seq) == {seq[i] : i \in 1..Len(seq)}

RECURSIVE Filter(_, _)
Filter(seq, keep) ==
    IF seq = <<>> THEN <<>>
    ELSE (IF Head(seq) \in keep THEN <<Head(seq)>> ELSE <<>>) \o Filter(Tail(seq), keep)

\* GarbageCollector::find_referenced_blobs
find_referenced_blobs ==
    LET repositories == fs_list_repositories
        of(data) == LET manifest == serde_json_from_slice(data)
                    IN  IF manifest.ok THEN extract_blob_references(manifest) ELSE {}
        by_tag(repository) ==
            UNION {of(fs_get_manifest(repository, tag).data) :
                      tag \in {t \in Range(fs_list_tags(repository)) :
                                  fs_get_manifest(repository, t).some}}
        by_digest(repository) ==
            UNION {of(fs_get_manifest_by_digest(repository, d).data) :
                      d \in {m \in Range(fs_list_manifests(repository)) :
                                fs_get_manifest_by_digest(repository, m).ok}}
    IN  UNION {by_tag(r) \cup by_digest(r) : r \in Range(repositories)}

\* GarbageCollector::find_orphaned_blobs
find_orphaned_blobs(all_blobs, referenced_blobs) ==
    LET cutoff_time == now - grace_period_hours
    IN  Filter(all_blobs,
               {blob_digest \in Range(all_blobs) :
                   /\ blob_digest \notin referenced_blobs
                   /\ fs_get_blob_metadata(blob_digest).ok
                   /\ fs_get_blob_metadata(blob_digest).created_at < cutoff_time})

\* delete_orphaned_blobs without its limit: the loop runs over every orphan
blobs_to_process_unlimited(orphaned_blobs) == orphaned_blobs

\* delete_orphaned_blobs: &orphaned_blobs[..max_blobs_per_run] when there are more
blobs_to_process(orphaned_blobs) ==
    IF Len(orphaned_blobs) > max_blobs_per_run
    THEN SubSeq(orphaned_blobs, 1, max_blobs_per_run)
    ELSE orphaned_blobs

\* GarbageCollector::find_orphaned_manifests: <<repository, digest>> pairs
find_orphaned_manifests ==
    LET cutoff_time == now - grace_period_hours
        orphans(repository) ==
            LET all_manifests == fs_list_manifests(repository)
                tags == fs_list_tags(repository)
                referenced_manifests ==
                    {fs_get_manifest_digest(repository, tag).digest :
                        tag \in {t \in Range(tags) : fs_get_manifest_digest(repository, t).ok}}
            IN  {<<repository, d>> :
                    d \in {m \in Range(all_manifests) :
                              /\ m \notin referenced_manifests
                              /\ fs_get_manifest_metadata(repository, m).ok
                              /\ fs_get_manifest_metadata(repository, m).created_at
                                     < cutoff_time}}
    IN  UNION {orphans(r) : r \in Range(fs_list_repositories)}

\* GarbageCollector::delete_orphaned_manifests (not a dry run): the directory after
RECURSIVE delete_orphaned_manifests(_, _)
delete_orphaned_manifests(dir, orphaned_manifests) ==
    IF orphaned_manifests = {} THEN dir
    ELSE LET m == CHOOSE x \in orphaned_manifests : TRUE
         IN  delete_orphaned_manifests(fs_delete_manifest(dir, m[1], m[2]),
                                       orphaned_manifests \ {m})

\* run_garbage_collection, entry: the metrics are zeroed
gc_begin(g, dry_run) ==
    /\ gc[g].pc \in {"idle", "done"}
    /\ gc' = [gc EXCEPT ![g] = [IdleGC EXCEPT !.pc = "mark", !.dry_run = dry_run,
                                              !.started = now]]
    /\ UNCHANGED <<now, blobs, uploads, manifests, issued, accepted, offpath, last, birthtime, inflight, bucket>>

\* GarbageCollector::start: interval.tick() fired, the run uses the configuration
scheduler_tick == gc_begin("scheduler", dry_run_default)

\* POST /admin/gc: request.dry_run overrides the configured dry_run
trigger_garbage_collection(request_dry_run) ==
    gc_begin("admin", IF request_dry_run = "true" THEN TRUE
                      ELSE IF request_dry_run = "false" THEN FALSE
                      ELSE dry_run_default)

\* Step 1: find all referenced blobs from manifests
gc_mark(g) ==
    /\ gc[g].pc = "mark"
    /\ gc' = [gc EXCEPT ![g].referenced = find_referenced_blobs, ![g].pc = "list"]
    /\ UNCHANGED <<now, blobs, uploads, manifests, issued, accepted, offpath, last, birthtime, inflight, bucket>>

\* Step 2: find all existing blobs (FilesystemStorage::list_all_blobs)
gc_list(g) ==
    /\ gc[g].pc = "list"
    /\ \E order \in Orderings(DOMAIN blobs) :
          gc' = [gc EXCEPT ![g].all_blobs = order, ![g].pc = "orphans"]
    /\ UNCHANGED <<now, blobs, uploads, manifests, issued, accepted, offpath, last, birthtime, inflight, bucket>>

\* Step 3: identify orphaned blobs
gc_find_orphaned(g) ==
    /\ gc[g].pc = "orphans"
    /\ LET orphaned_blobs == find_orphaned_blobs(gc[g].all_blobs, gc[g].referenced)
       IN  gc' = [gc EXCEPT ![g].orphaned = orphaned_blobs,
                            ![g].orphaned_blobs_found = Len(orphaned_blobs),
                            ![g].next = 1,
                            ![g].pc = "delete"]
    /\ UNCHANGED <<now, blobs, uploads, manifests, issued, accepted, offpath, last, birthtime, inflight, bucket>>

\* Step 4: one iteration of the loop of delete_orphaned_blobs
gc_delete_blob(g) ==
    LET to_process == blobs_to_process(gc[g].orphaned)
        blob_digest == to_process[gc[g].next]
        metadata == fs_get_blob_metadata(blob_digest)
    IN  /\ gc[g].pc = "delete"
        /\ gc[g].next <= Len(to_process)
        /\ IF gc[g].dry_run
           THEN /\ gc' = [gc EXCEPT ![g].deleted_count = @ + 1, ![g].next = @ + 1]
                /\ UNCHANGED blobs
           ELSE /\ gc' = [gc EXCEPT ![g].bytes_freed = IF metadata.ok THEN @ + metadata.size ELSE @,
                                    ![g].deleted_count = @ + 1,
                                    ![g].next = @ + 1,
                                    ![g].removed = @ \cup ({blob_digest} \cap DOMAIN blobs)]
                /\ blobs' = fs_delete_blob(blobs, blob_digest)
        /\ UNCHANGED <<now, uploads, manifests, issued, accepted, offpath, last, birthtime, inflight, bucket>>

\* Step 5: find and clean orphaned manifests
gc_manifests(g) ==
    LET orphaned_manifests == find_orphaned_manifests
    IN  /\ gc[g].pc = "delete"
        /\ gc[g].next > Len(blobs_to_process(gc[g].orphaned))
        /\ gc' = [gc EXCEPT ![g].orphaned_manifests_found = Cardinality(orphaned_manifests),
                            ![g].manifests_deleted = Cardinality(orphaned_manifests),
                            ![g].pc = "return"]
        /\ manifests' = IF gc[g].dry_run THEN manifests
                        ELSE delete_orphaned_manifests(manifests, orphaned_manifests)
        /\ UNCHANGED <<now, blobs, uploads, issued, accepted, offpath, last, birthtime, inflight, bucket>>

\* Ok(metrics): the run returns its metrics, its locals go out of scope
gc_return(g) ==
    /\ gc[g].pc = "return"
    /\ gc' = [gc EXCEPT ![g].referenced = {},
                        ![g].all_blobs = <<>>,
                        ![g].orphaned = <<>>,
                        ![g].next = 1,
                        ![g].pc = "done"]
    /\ UNCHANGED <<now, blobs, uploads, manifests, issued, accepted, offpath, last, birthtime, inflight, bucket>>

\* the clock
Tick ==
    /\ now < MaxTime
    /\ now' = now + 1
    /\ UNCHANGED <<blobs, uploads, manifests, issued, accepted, offpath, last, gc, birthtime, inflight, bucket>>

----------------------------------------------------------------------------
(* The registry without the garbage collector *)

EmptyDir == [k \in {} |-> 0]

Init ==
    /\ now = 0
    /\ blobs = EmptyDir
    /\ uploads = EmptyDir
    /\ manifests = EmptyDir
    /\ issued = {}
    /\ accepted = [u \in UUIDs |-> <<>>]
    /\ offpath = [u \in UUIDs |-> FALSE]
    /\ last = NoResponse
    /\ gc = [g \in GCRunners |-> IdleGC]
    /\ birthtime \in BOOLEAN
    /\ inflight = [c \in Clients |-> NoRequest]
    /\ bucket = EmptyDir

StartUpload == \E name \in Repos, uuid \in UUIDs : start_upload(name, uuid)
UploadChunk ==
    \E name \in Repos, uuid \in UUIDs, body \in Bodies :
        \E header \in RangeHeaders(body) : upload_chunk(name, uuid, header, body)
CompleteUpload ==
    \E name \in Repos, uuid \in UUIDs, digest \in ClaimedDigests \cup {<<>>}, body \in Bodies :
        complete_upload(name, uuid, digest, body)
CancelUpload == \E name \in Repos, uuid \in UUIDs : cancel_upload(name, uuid)
DeleteBlob == \E name \in Repos, digest \in ClaimedDigests : delete_blob(name, digest)
PutBlob == \E data \in Bodies : put_blob(data)

Next ==
    \/ StartUpload
    \/ UploadChunk
    \/ CompleteUpload
    \/ CancelUpload
    \/ DeleteBlob
    \/ PutBlob

Spec == Init /\ [][Next]_vars

----------------------------------------------------------------------------
(* The manifest pipeline alone *)

ManifestBodies == {JsonDoc(<<>>), JsonDoc(<<<<KConfig, Sha256(<<1>>)>>>>), <<>>}
References == Tags \cup {Sha256(m) : m \in ManifestBodies}

PutManifest ==
    \E name \in Repos, reference \in References, content_type \in ContentTypes,
       body \in ManifestBodies :
        put_manifest(name, reference, content_type, body)
DeleteManifest ==
    \E name \in Repos, reference \in References : delete_manifest(name, reference)

NextManifest ==
    \/ PutManifest
    \/ DeleteManifest

SpecManifest == Init /\ [][NextManifest]_vars

----------------------------------------------------------------------------
(* The garbage collector running beside the registry *)

GcManifests == {JsonDoc(<<<<KLayers, Sha256(<<1>>)>>>>)}
GcTag == <<118, 1>>

GcUploadChunk == \E name \in Repos, uuid \in UUIDs : upload_chunk(name, uuid, NoRange, <<1>>)
GcCompleteUpload ==
    \E name \in Repos, uuid \in UUIDs :
        complete_upload(name, uuid, Sha256(accepted[uuid]), <<>>)
GcPutManifest ==
    \E name \in Repos, body \in GcManifests : put_manifest(name, GcTag, OciManifest, body)
SchedulerTick == scheduler_tick
GcMark == \E g \in GCRunners : gc_mark(g)
GcList == \E g \in GCRunners : gc_list(g)
GcFindOrphaned == \E g \in GCRunners : gc_find_orphaned(g)
GcDeleteBlob == \E g \in GCRunners : gc_delete_blob(g)
GcManifestsStep == \E g \in GCRunners : gc_manifests(g)
GcReturn == \E g \in GCRunners : gc_return(g)

\* the periodic runs, with uploads and manifest PUTs arriving at any point
NextGC ==
    \/ GcUploadChunk
    \/ GcCompleteUpload
    \/ GcPutManifest
    \/ Tick
    \/ SchedulerTick
    \/ GcMark
    \/ GcList
    \/ GcFindOrphaned
    \/ GcDeleteBlob
    \/ GcManifestsStep
    \/ GcReturn

SpecGC == Init /\ [][NextGC]_vars

----------------------------------------------------------------------------
(* The periodic run over a store filled through StorageBackend::put_blob *)

GcBodies == Bodies \ {<<>>}

GcPutBlob == \E data \in GcBodies : put_blob(data)

NextSweep ==
    \/ GcPutBlob
    \/ Tick
    \/ SchedulerTick
    \/ GcMark
    \/ GcList
    \/ GcFindOrphaned
    \/ GcDeleteBlob
    \/ GcManifestsStep
    \/ GcReturn

SpecSweep == Init /\ [][NextSweep]_vars

----------------------------------------------------------------------------
(* The periodic run and POST /admin/gc side by side *)

TriggerGarbageCollection ==
    \E request_dry_run \in {"absent", "true", "false"} :
        trigger_garbage_collection(request_dry_run)

NextTriggers ==
    \/ GcPutBlob
    \/ Tick
    \/ SchedulerTick
    \/ TriggerGarbageCollection
    \/ GcMark
    \/ GcList
    \/ GcFindOrphaned
    \/ GcDeleteBlob
    \/ GcManifestsStep
    \/ GcReturn

SpecTriggers == Init /\ [][NextTriggers]_vars

----------------------------------------------------------------------------
(* Listings (api/registry/mod.rs): GET /v2/_catalog, GET /v2/<name>/tags/list *)

MaxPage == 3                   \* largest ?n= a client sends

default_page_size == 100       \* .unwrap_or(100)

\* ?n=: absent, a number, or text that is no number
NParams ==
    {[kind |-> "absent", value |-> 0], [kind |-> "junk", value |-> 0]}
    \cup {[kind |-> "number", value |-> v] : v \in 0..MaxPage}

\* params.get("n").and_then(|s| s.parse::<usize>().ok()).unwrap_or(100)
page_size(n) == IF n.kind = "number" THEN n.value ELSE default_page_size

\* ?last=: absent or a string
NoLast == [given |-> FALSE, value |-> <<>>]
LastParams ==
    {NoLast} \cup
    {[given |-> TRUE, value |-> v] :
        v \in {<<96>>, <<97>>, <<97, 1>>, <<98>>, <<99>>, <<122>>,
               <<118>>, <<118, 1>>, <<118, 2>>, <<119>>}}

\* if let Some(pos) = list.iter().position(|r| r > last) { skip(pos) }: the
\* list is left as it is when no element is greater than last
skip_to_position(listing, last_seen) ==
    LET greater == {i \in 1..Len(listing) : LexLess(last_seen, listing[i])}
    IN  IF greater = {} THEN listing
        ELSE SubSeq(listing, CHOOSE i \in greater : \A j \in greater : i <= j, Len(listing))

\* Vec::truncate(n)
truncate(listing, n) == IF Len(listing) > n THEN SubSeq(listing, 1, n) ELSE listing

\* the page both handlers build; the only header they set is Content-Type,
\* so the response carries no Link
paginate(listing, n, last_seen) ==
    [status |-> 200,
     page |-> truncate(IF last_seen.given THEN skip_to_position(listing, last_seen.value) ELSE listing,
                       page_size(n)),
     link |-> NoLast]

\* GET /v2/_catalog?n=&last=
list_repositories(n, last_seen) == paginate(fs_list_repositories, n, last_seen)

\* GET /v2/<name>/tags/list?n=&last=
list_tags(name, n, last_seen) == paginate(fs_list_tags(name), n, last_seen)

CatalogRepos == {<<97>>, <<98>>, <<99>>}             \* "a", "b", "c"
CatalogBody == JsonDoc(<<>>)

CatalogPutManifest ==
    \E name \in CatalogRepos, tag \in Tags : put_manifest(name, tag, OciManifest, CatalogBody)
CatalogDeleteManifest ==
    \E name \in CatalogRepos, tag \in Tags : delete_manifest(name, tag)

NextCatalog ==
    \/ CatalogPutManifest
    \/ CatalogDeleteManifest

SpecCatalog == Init /\ [][NextCatalog]_vars

----------------------------------------------------------------------------
(* The API router and the authorization middleware (server.rs,
   api/middleware.rs, auth/mod.rs) *)

\* the text of the path segments and scopes the code compares and formats
Ascii ==
    [v2               |-> <<118, 50>>,
     v1               |-> <<118, 49>>,
     manifests        |-> <<109, 97, 110, 105, 102, 101, 115, 116, 115>>,
     blobs            |-> <<98, 108, 111, 98, 115>>,
     uploads          |-> <<117, 112, 108, 111, 97, 100, 115>>,
     catalog          |-> <<95, 99, 97, 116, 97, 108, 111, 103>>,
     tags             |-> <<116, 97, 103, 115>>,
     list             |-> <<108, 105, 115, 116>>,
     health           |-> <<104, 101, 97, 108, 116, 104>>,
     readyz           |-> <<114, 101, 97, 100, 121, 122>>,
     metrics          |-> <<109, 101, 116, 114, 105, 99, 115>>,
     repository       |-> <<114, 101, 112, 111, 115, 105, 116, 111, 114, 121>>,
     pull             |-> <<112, 117, 108, 108>>,
     push             |-> <<112, 117, 115, 104>>,
     delete           |-> <<100, 101, 108, 101, 116, 101>>,
     colon            |-> <<58>>,
     star             |-> <<42>>,
     registry_all     |-> <<114, 101, 103, 105, 115, 116, 114, 121, 58, 42>>,
     registry_catalog |-> <<114, 101, 103, 105, 115, 116, 114, 121, 58, 99, 97, 116, 97, 108, 111, 103, 58, 42>>,
     bolt_read        |-> <<98, 111, 108, 116, 58, 114, 101, 97, 100>>,
     bolt_write       |-> <<98, 111, 108, 116, 58, 119, 114, 105, 116, 101>>,
     bolt_delete      |-> <<98, 111, 108, 116, 58, 100, 101, 108, 101, 116, 101>>,
     repository_pull  |-> <<114, 101, 112, 111, 115, 105, 116, 111, 114, 121, 58, 42, 58, 112, 117, 108, 108>>,
     repository_push  |-> <<114, 101, 112, 111, 115, 105, 116, 111, 114, 121, 58, 42, 58, 112, 117, 115, 104>>]

\* a path is the sequence of its segments: "/v2/a/manifests/v1" is
\* <<"v2", "a", "manifests", "v1">> and a trailing slash ends it with <<>>
Path_v2 == <<Ascii.v2, <<>>>>                                \* "/v2/"
Path_catalog == <<Ascii.v2, Ascii.catalog>>                  \* "/v2/_catalog"

\* str::starts_with
starts_with(s, prefix) ==
    Len(s) >= Len(prefix) /\ SubSeq(s, 1, Len(prefix)) = prefix

\* format!("repository:{}:<action>", repo)
format_scope(repo, action) == Ascii.repository \o Ascii.colon \o repo \o Ascii.colon \o action

Methods == {"GET", "HEAD", "PUT", "POST", "PATCH", "DELETE", "OPTIONS"}

determine_required_scope(path, method) ==
    IF /\ Len(path) >= 4                 \* ^/v2/([^/]+)/(manifests|blobs)/
       /\ path[1] = Ascii.v2
       /\ path[2] # <<>>
       /\ path[3] \in {Ascii.manifests, Ascii.blobs}
    THEN CASE method \in {"GET", "HEAD"} -> format_scope(path[2], Ascii.pull)
           [] method \in {"PUT", "POST", "PATCH"} -> format_scope(path[2], Ascii.push)
           [] method = "DELETE" -> format_scope(path[2], Ascii.delete)
           [] OTHER -> format_scope(path[2], Ascii.pull)
    ELSE IF /\ Len(path) >= 2 /\ path[1] = Ascii.v2          \* starts_with("/v2/")
            /\ \E i \in 1..(Len(path) - 2) :                 \* contains("/blobs/uploads/")
                  path[i] = Ascii.blobs /\ path[i + 1] = Ascii.uploads
    THEN format_scope(path[2], Ascii.push)                   \* split('/').nth(2)
    ELSE IF path = Path_catalog
    THEN Ascii.registry_catalog
    ELSE IF Len(path) >= 2 /\ path[1] = Ascii.v1             \* starts_with("/v1/")
    THEN CASE method = "GET" -> Ascii.bolt_read
           [] method \in {"POST", "PUT"} -> Ascii.bolt_write
           [] method = "DELETE" -> Ascii.bolt_delete
           [] OTHER -> Ascii.bolt_read
    ELSE Ascii.registry_all

\* check_scope with the starts_with test left out: a granted scope that ends
\* in * matches every required scope
check_scope_any_wildcard(scopes, required_scope) ==
    \E scope \in scopes :
        \/ scope = required_scope
        \/ scope = Ascii.registry_all
        \/ scope # <<>> /\ <<scope[Len(scope)]>> = Ascii.star

\* AuthService::check_scope
check_scope(scopes, required_scope) ==
    \E scope \in scopes :
        \/ scope = required_scope
        \/ scope = Ascii.registry_all
        \/ /\ scope # <<>>                                   \* strip_suffix("*")
           /\ <<scope[Len(scope)]>> = Ascii.star
           /\ starts_with(required_scope, SubSeq(scope, 1, Len(scope) - 1))

\* the Authorization header: absent, or a scheme with credentials that
\* validate_token / authenticate resolve to a user (valid) or not
NoAuthorization == [scheme |-> "absent", valid |-> FALSE, scopes |-> {}]
Authorizations ==
    {NoAuthorization,
     [scheme |-> "Digest", valid |-> FALSE, scopes |-> {}],
     [scheme |-> "Bearer", valid |-> FALSE, scopes |-> {}],
     [scheme |-> "Bearer", valid |-> TRUE, scopes |-> {Ascii.registry_all}],
     \* the user AuthService::authenticate builds
     [scheme |-> "Basic", valid |-> TRUE,
      scopes |-> {Ascii.repository_pull, Ascii.repository_push}]}

\* "next" when the request is passed on, else the error the middleware
\* answers with
auth_middleware(req) ==
    IF \/ starts_with(req.path[1], Ascii.health)
       \/ starts_with(req.path[1], Ascii.readyz)
       \/ starts_with(req.path[1], Ascii.metrics)
    THEN "next"
    ELSE IF req.path = Path_v2
    THEN "next"
    ELSE IF req.authorization.scheme \notin {"Bearer", "Basic"}
    THEN "UNAUTHORIZED"
    ELSE IF ~req.authorization.valid
    THEN "UNAUTHORIZED"
    ELSE IF ~check_scope(req.authorization.scopes,
                         determine_required_scope(req.path, req.method))
    THEN "DENIED"
    ELSE "next"

\* the layers Server::create_api_router puts around the routes
api_router_layers == {"TraceLayer", "CompressionLayer", "CorsLayer", "Extension"}

\* a handler that reads: its answer, with the stores left alone
answer(op, status, code) ==
    /\ last' = Response(op, status, code)
    /\ UNCHANGED <<now, blobs, uploads, manifests, issued, accepted, offpath, gc, birthtime, inflight, bucket>>

\* the routes of create_api_router and api::registry::router
route(req) ==
    LET path == req.path
        method == req.method
        under_v2 == Len(path) >= 2 /\ path[1] = Ascii.v2
    IN  IF Len(path) = 1 /\ path[1] \in {Ascii.health, Ascii.readyz, Ascii.metrics}
        THEN IF method = "GET" THEN answer("health_check", 200, "")
             ELSE answer("router", 405, "")
        ELSE IF path = Path_v2
        THEN IF method = "GET" THEN answer("api_version", 200, "")
             ELSE answer("router", 405, "")
        ELSE IF path = Path_catalog
        THEN IF method = "GET" THEN answer("list_repositories", 200, "")
             ELSE answer("router", 405, "")
        ELSE IF under_v2 /\ Len(path) = 4 /\ path[3] = Ascii.manifests
        THEN CASE method = "GET" ->
                    answer("get_manifest", get_manifest(path[2], path[4]).status,
                           get_manifest(path[2], path[4]).code)
               [] method = "HEAD" ->
                    answer("head_manifest", get_manifest(path[2], path[4]).status,
                           get_manifest(path[2], path[4]).code)
               [] method = "PUT" -> put_manifest(path[2], path[4], OciManifest, req.body)
               [] method = "DELETE" -> delete_manifest(path[2], path[4])
               [] OTHER -> answer("router", 405, "")
        ELSE IF under_v2 /\ Len(path) = 4 /\ path[3] = Ascii.tags /\ path[4] = Ascii.list
        THEN IF method = "GET" THEN answer("list_tags", 200, "")
             ELSE answer("router", 405, "")
        ELSE IF under_v2 /\ Len(path) = 4 /\ path[3] = Ascii.blobs
        THEN CASE method = "GET" ->
                    answer("get_blob", get_blob(path[2], path[4]).status,
                           get_blob(path[2], path[4]).code)
               [] method = "HEAD" ->
                    answer("head_blob", get_blob(path[2], path[4]).status,
                           get_blob(path[2], path[4]).code)
               [] method = "DELETE" -> delete_blob(path[2], path[4])
               [] OTHER -> answer("router", 405, "")
        ELSE IF /\ under_v2 /\ Len(path) = 5 /\ path[3] = Ascii.blobs
                /\ path[4] = Ascii.uploads /\ path[5] = <<>>
        THEN IF method = "POST" THEN \E uuid \in UUIDs : start_upload(path[2], uuid)
             ELSE answer("router", 405, "")
        ELSE IF /\ under_v2 /\ Len(path) = 5 /\ path[3] = Ascii.blobs
                /\ path[4] = Ascii.uploads /\ path[5] \in UUIDs
        THEN CASE method = "PATCH" -> upload_chunk(path[2], path[5], NoRange, req.body)
               [] method = "PUT" -> complete_upload(path[2], path[5], Sha256(req.body), req.body)
               [] method = "GET" ->
                    answer("get_upload_status", get_upload_status(path[2], path[5]).status,
                           get_upload_status(path[2], path[5]).code)
               [] method = "DELETE" -> cancel_upload(path[2], path[5])
               [] OTHER -> answer("router", 405, "")
        ELSE answer("router", 404, "")

\* a request passes the layers of the router, then reaches its route
serve(req) ==
    LET verdict == IF "auth_middleware" \in api_router_layers
                   THEN auth_middleware(req)
                   ELSE "next"
    IN  IF verdict # "next"
        THEN answer("auth_middleware", StatusOf(verdict), verdict)
        ELSE route(req)

RouterTag == <<118, 1>>
RouterPaths ==
    {<<Ascii.health>>, <<Ascii.readyz>>, <<Ascii.metrics>>, Path_v2, Path_catalog}
    \cup {<<Ascii.v2, name, Ascii.manifests, RouterTag>> : name \in Repos}
    \cup {<<Ascii.v2, name, Ascii.tags, Ascii.list>> : name \in Repos}
    \cup {<<Ascii.v2, name, Ascii.blobs, Sha256(<<1>>)>> : name \in Repos}
    \cup {<<Ascii.v2, name, Ascii.blobs, Ascii.uploads, <<>>>> : name \in Repos}
    \cup {<<Ascii.v2, name, Ascii.blobs, Ascii.uploads, uuid>> : name \in Repos, uuid \in UUIDs}

RouterBodies == {<<>>, JsonDoc(<<>>)}

\* only PUT and PATCH requests are sent with a body
Requests ==
    {req \in [method : Methods, path : RouterPaths, authorization : Authorizations,
              body : RouterBodies] :
        req.body # <<>> => req.method \in {"PUT", "PATCH"}}

Serve == \E req \in Requests : serve(req)

NextRouter == Serve

SpecRouter == Init /\ [][NextRouter]_vars

----------------------------------------------------------------------------
(* The middleware deciding requests of authenticated users *)

ScopeRepos == {<<97>>, <<97, 98>>, <<98>>}                   \* "a", "ab", "b"

\* scopes a token can carry
Grants ==
    {format_scope(<<97>>, Ascii.pull),                       \* repository:a:pull
     format_scope(<<97>>, Ascii.star),                       \* repository:a:*
     format_scope(<<98>>, Ascii.push),                       \* repository:b:push
     Ascii.repository \o Ascii.colon \o <<97>> \o Ascii.star,   \* repository:a*
     Ascii.repository \o Ascii.colon \o Ascii.star,          \* repository:*
     Ascii.repository_pull,                                  \* repository:*:pull
     Ascii.registry_catalog,                                 \* registry:catalog:*
     Ascii.registry_all,                                     \* registry:*
     Ascii.star,                                             \* *
     <<>>}
GrantSets == {g \in SUBSET Grants : Cardinality(g) <= 2}

ScopePaths ==
    {Path_catalog}
    \cup {<<Ascii.v2, name, Ascii.manifests, RouterTag>> : name \in ScopeRepos}
    \cup {<<Ascii.v2, name, Ascii.tags, Ascii.list>> : name \in ScopeRepos}

\* requests of users whose token is valid, and one without a header
ScopeRequests ==
    {[method |-> method, path |-> path, body |-> <<>>,
      authorization |-> [scheme |-> "Bearer", valid |-> TRUE, scopes |-> g]] :
        method \in {"GET", "PUT", "DELETE"}, path \in ScopePaths, g \in GrantSets}
    \cup {[method |-> "GET", path |-> Path_catalog, body |-> <<>>,
           authorization |-> NoAuthorization]}

\* auth_middleware run on a request: the decision, with the scopes of the
\* user and the scope the request requires
authorize(req) ==
    /\ last' = [op |-> "auth_middleware",
                status |-> IF auth_middleware(req) = "next" THEN 0
                           ELSE StatusOf(auth_middleware(req)),
                code |-> auth_middleware(req),
                range |-> NoRangeHeader,
                scopes |-> req.authorization.scopes,
                required_scope |-> determine_required_scope(req.path, req.method)]
    /\ UNCHANGED <<now, blobs, uploads, manifests, issued, accepted, offpath, gc, birthtime, inflight, bucket>>

\* the user AuthService::authenticate builds from Basic credentials
BasicUser ==
    [scheme |-> "Basic", valid |-> TRUE,
     scopes |-> {Ascii.repository_pull, Ascii.repository_push}]

\* requests of that user on the manifests and blobs of the repositories
BasicRequests ==
    {[method |-> method, path |-> path, body |-> <<>>, authorization |-> BasicUser] :
        method \in Methods,
        path \in {<<Ascii.v2, name, Ascii.manifests, RouterTag>> : name \in ScopeRepos}
                 \cup {<<Ascii.v2, name, Ascii.blobs, Sha256(<<1>>)>> : name \in ScopeRepos}}

Authorize == \E req \in ScopeRequests \cup BasicRequests : authorize(req)

NextScope == Authorize

SpecScope == Init /\ [][NextScope]_vars

----------------------------------------------------------------------------
(* Upload sessions that are started, fed and cancelled *)

NextCancel ==
    \/ StartUpload
    \/ UploadChunk
    \/ CancelUpload

SpecCancel == Init /\ [][NextCancel]_vars

----------------------------------------------------------------------------
(* Manifests pushed again and again while time passes *)

RepeatBodies == {JsonDoc(<<>>), JsonDoc(<<<<KConfig, Sha256(<<1>>)>>>>)}

RepeatPutManifest ==
    \E name \in Repos, reference \in Tags, content_type \in {OciManifest, TextPlain},
       body \in RepeatBodies :
        put_manifest(name, reference, content_type, body)

NextRepeat ==
    \/ RepeatPutManifest
    \/ Tick

SpecRepeat == Init /\ [][NextRepeat]_vars

----------------------------------------------------------------------------
(* The periodic run over manifests pushed by tag and by digest *)

OrphanBody == JsonDoc(<<>>)

OrphanPutManifest ==
    \E name \in Repos, reference \in {GcTag, Sha256(OrphanBody)} :
        put_manifest(name, reference, OciManifest, OrphanBody)

NextOrphans ==
    \/ OrphanPutManifest
    \/ GcPutBlob
    \/ Tick
    \/ SchedulerTick
    \/ GcMark
    \/ GcList
    \/ GcFindOrphaned
    \/ GcDeleteBlob
    \/ GcManifestsStep
    \/ GcReturn

SpecOrphans == Init /\ [][NextOrphans]_vars

----------------------------------------------------------------------------
(* Upload sessions left behind while the periodic run keeps running *)

NextAbandoned ==
    \/ GcUploadChunk
    \/ GcCompleteUpload
    \/ Tick
    \/ SchedulerTick
    \/ GcMark
    \/ GcList
    \/ GcFindOrphaned
    \/ GcDeleteBlob
    \/ GcManifestsStep
    \/ GcReturn

\* the clock advances, the interval of GarbageCollector::start keeps firing
\* and a run that began goes on to its end; clients may stop at any time
SpecAbandoned ==
    /\ Init
    /\ [][NextAbandoned]_vars
    /\ WF_vars(Tick)
    /\ WF_vars(SchedulerTick)
    /\ WF_vars(GcMark)
    /\ WF_vars(GcList)
    /\ WF_vars(GcFindOrphaned)
    /\ WF_vars(GcDeleteBlob)
    /\ WF_vars(GcManifestsStep)
    /\ WF_vars(GcReturn)

----------------------------------------------------------------------------
(* Two requests on one upload id served side by side.  Every .await of a   *)
(* handler and of the storage call under it is a step of its own.          *)

RaceBodies == {<<1>>, <<2, 2>>}
RaceDigests == {Sha256(b) : b \in RaceBodies}
RaceRanges(body) == {<<0, Len(body)>>, parse_content_range([kind |-> "bytes", start |-> 1, end |-> Len(body)])}

\* PATCH, PUT ?digest= and DELETE on /v2/<name>/blobs/uploads/<uuid>
RaceRequests ==
    UNION {{[op |-> "upload_chunk", key |-> uuid, range |-> range, body |-> body,
              digest |-> <<>>] : uuid \in UUIDs, range \in RaceRanges(body)} :
              body \in RaceBodies}
    \cup {[op |-> "complete_upload", key |-> uuid, range |-> <<0, Len(body)>>, body |-> body,
           digest |-> digest] :
             uuid \in UUIDs, body \in RaceBodies \cup {<<>>}, digest \in RaceDigests}
    \cup {[op |-> "cancel_upload", key |-> uuid, range |-> <<0, 0>>, body |-> <<>>,
           digest |-> <<>>] : uuid \in UUIDs}

AllIdle == \A c \in Clients : inflight[c].pc = "idle"
AllDone == \A c \in Clients : inflight[c].pc = "done"

\* the first storage step of a handler
first_step(r) ==
    CASE r.op = "upload_chunk" -> "open"
      [] r.op = "complete_upload" -> IF r.body # <<>> THEN "open" ELSE "rename"
      [] r.op = "cancel_upload" -> "remove_file"

\* both requests arrive; `base` keeps the store they found
Arrive ==
    /\ AllIdle
    /\ \E r \in [Clients -> RaceRequests] :
          inflight' = [c \in Clients |->
                          [op |-> r[c].op, pc |-> first_step(r[c]), key |-> r[c].key,
                           range |-> r[c].range, body |-> r[c].body, digest |-> r[c].digest,
                           fd |-> NoFd, base |-> [uploads |-> uploads, blobs |-> blobs],
                           read |-> <<>>]]
    /\ UNCHANGED <<now, blobs, uploads, manifests, issued, accepted, offpath, last, gc, birthtime, bucket>>

\* put_upload_chunk: OpenOptions::new().create(true).write(true).open(path).await
chunk_open(c) ==
    LET r == inflight[c]
    IN  /\ r.pc = "open"
        /\ uploads' = IF r.key \in DOMAIN uploads THEN uploads
                      ELSE Store(uploads, r.key, File(<<>>, now, now))
        /\ inflight' = [inflight EXCEPT ![c].pc = "write", ![c].fd = Fd("upload", r.key)]
        /\ UNCHANGED <<now, blobs, manifests, issued, accepted, offpath, last, gc, birthtime, bucket>>

\* the bytes land in the file the descriptor refers to
written(file, r) == [file EXCEPT !.data = WriteAt(@, r.range[1], r.body), !.modified = now]

\* put_upload_chunk: file.seek(Start(range.0)).await; file.write_all(&data).await;
\* file.flush().await
chunk_write(c) ==
    LET r == inflight[c]
    IN  /\ r.pc = "write"
        /\ uploads' = IF r.fd.kind = "upload"
                      THEN [uploads EXCEPT ![r.fd.key] = written(@, r)] ELSE uploads
        /\ blobs' = IF r.fd.kind = "blob"
                    THEN [blobs EXCEPT ![r.fd.key] = written(@, r)] ELSE blobs
        /\ inflight' = [inflight EXCEPT
                           ![c].pc = IF r.op = "complete_upload" THEN "rename" ELSE "done",
                           ![c].fd = NoFd]
        /\ last' = IF r.op = "complete_upload" THEN last
                   ELSE RangeResponse("upload_chunk", 202, r.range[2] - 1)
        /\ UNCHANGED <<now, manifests, issued, accepted, offpath, gc, birthtime, bucket>>

\* what an open descriptor refers to after rename(uploads/<uuid>, blobs/<digest>)
after_rename(fd, uuid, digest) ==
    IF fd = Fd("upload", uuid) THEN Fd("blob", digest)
    ELSE IF fd = Fd("blob", digest) THEN Fd("unlinked", <<>>)
    ELSE fd

\* complete_upload: fs::rename(&upload_path, &blob_path).await
upload_rename(c) ==
    LET r == inflight[c]
        done == fs_complete_upload(uploads, blobs, r.key, r.digest)
    IN  /\ r.pc = "rename"
        /\ uploads' = done.uploads
        /\ blobs' = done.blobs
        /\ inflight' = [d \in Clients |->
                           IF d = c THEN [r EXCEPT !.pc = "done"]
                           ELSE IF done.ok
                           THEN [inflight[d] EXCEPT !.fd = after_rename(@, r.key, r.digest)]
                           ELSE inflight[d]]
        /\ last' = IF done.ok THEN Response("complete_upload", 201, "")
                   ELSE Response("complete_upload", StatusOf("UNKNOWN"), "UNKNOWN")
        /\ UNCHANGED <<now, manifests, issued, accepted, offpath, gc, birthtime, bucket>>

\* cancel_upload: fs::remove_file(&path).await
upload_remove_file(c) ==
    LET r == inflight[c]
    IN  /\ r.pc = "remove_file"
        /\ uploads' = fs_cancel_upload(uploads, r.key).uploads
        /\ inflight' = [d \in Clients |->
                           IF d = c THEN [r EXCEPT !.pc = "done"]
                           ELSE IF inflight[d].fd = Fd("upload", r.key)
                           THEN [inflight[d] EXCEPT !.fd = Fd("unlinked", <<>>)]
                           ELSE inflight[d]]
        /\ last' = Response("cancel_upload", 204, "")
        /\ UNCHANGED <<now, blobs, manifests, issued, accepted, offpath, gc, birthtime, bucket>>

\* a PATCH served alone, before the two requests arrive
RaceUploadChunk == AllIdle /\ UploadChunk
ChunkOpen == \E c \in Clients : chunk_open(c)
ChunkWrite == \E c \in Clients : chunk_write(c)
UploadRename == \E c \in Clients : upload_rename(c)
UploadRemoveFile == \E c \in Clients : upload_remove_file(c)

NextRace ==
    \/ RaceUploadChunk
    \/ Arrive
    \/ ChunkOpen
    \/ ChunkWrite
    \/ UploadRename
    \/ UploadRemoveFile

SpecRace == Init /\ [][NextRace]_vars

----------------------------------------------------------------------------
(* Two requests on the manifests of one repository served side by side *)

RaceManifests == {JsonDoc(<<>>), JsonDoc(<<<<KConfig, Sha256(<<1>>)>>>>)}

\* PUT and GET /v2/<name>/manifests/<tag>; key is <<name, tag>>
ManifestRequests ==
    {[op |-> "put_manifest", key |-> <<name, tag>>, body |-> body] :
        name \in Repos, tag \in Tags, body \in RaceManifests}
    \cup {[op |-> "get_manifest", key |-> <<name, tag>>, body |-> <<>>] :
             name \in Repos, tag \in Tags}

\* both requests arrive; `base` keeps the manifests they found
ArriveManifest ==
    /\ AllIdle
    /\ \E r \in [Clients -> ManifestRequests] :
          inflight' = [c \in Clients |->
                          [op |-> r[c].op,
                           pc |-> IF r[c].op = "put_manifest" THEN "create" ELSE "read",
                           key |-> r[c].key, range |-> <<0, Len(r[c].body)>>,
                           body |-> r[c].body, digest |-> <<>>, fd |-> NoFd,
                           base |-> manifests, read |-> <<>>]]
    /\ UNCHANGED <<now, blobs, uploads, manifests, issued, accepted, offpath, last, gc, birthtime, bucket>>

\* put_manifest, fs::write(&path, &data): File::create(path) makes the file
\* or truncates it to length zero
manifest_create(c) ==
    LET r == inflight[c]
    IN  /\ r.pc = "create"
        /\ manifests' = fs_put_manifest(manifests, r.key[1], r.key[2], <<>>)
        /\ inflight' = [inflight EXCEPT ![c].pc = "write", ![c].fd = Fd("manifest", r.key)]
        /\ UNCHANGED <<now, blobs, uploads, issued, accepted, offpath, last, gc, birthtime, bucket>>

\* put_manifest, fs::write(&path, &data): file.write_all(data), from the
\* start of the file, whatever it holds by now
manifest_write(c) ==
    LET r == inflight[c]
    IN  /\ r.pc = "write"
        /\ r.fd.kind = "manifest"
        /\ manifests' = [manifests EXCEPT ![r.key[1]][r.key[2]] = written(@, r)]
        /\ inflight' = [inflight EXCEPT ![c].pc = "done", ![c].fd = NoFd]
        /\ last' = Response("put_manifest", 201, "")
        /\ UNCHANGED <<now, blobs, uploads, issued, accepted, offpath, gc, birthtime, bucket>>

\* get_manifest, fs::read(&path): the response carries what the file holds
manifest_read(c) ==
    LET r == inflight[c]
        got == get_manifest(r.key[1], r.key[2])
    IN  /\ r.pc = "read"
        /\ inflight' = [inflight EXCEPT ![c].pc = "done", ![c].read = got]
        /\ last' = Response("get_manifest", got.status, got.code)
        /\ UNCHANGED <<now, blobs, uploads, manifests, issued, accepted, offpath, gc, birthtime, bucket>>

\* a PUT served alone, before the two requests arrive
RacePutManifest ==
    /\ AllIdle
    /\ \E name \in Repos, tag \in Tags, body \in RaceManifests :
          put_manifest(name, tag, OciManifest, body)
ManifestCreate == \E c \in Clients : manifest_create(c)
ManifestWrite == \E c \in Clients : manifest_write(c)
ManifestRead == \E c \in Clients : manifest_read(c)

NextTagRace ==
    \/ RacePutManifest
    \/ ArriveManifest
    \/ ManifestCreate
    \/ ManifestWrite
    \/ ManifestRead

SpecTagRace == Init /\ [][NextTagRace]_vars

----------------------------------------------------------------------------
(* S3Storage (storage/s3.rs): blobs and upload chunks are objects of one   *)
(* bucket; an object key is a string, bucket maps it to the object's bytes *)

Slash == <<47>>
Dash == <<45>>
ChunkWord == <<99, 104, 117, 110, 107>>               \* "chunk"

\* u64::to_string
RECURSIVE to_string(_)
to_string(n) == IF n < 10 THEN <<48 + n>> ELSE to_string(n \div 10) \o <<48 + (n % 10)>>

\* S3Storage::blob_key: format!("blobs/{}/{}", &digest[0..2], digest)
s3_blob_key(digest) == Ascii.blobs \o Slash \o SubSeq(digest, 1, 2) \o Slash \o digest

\* S3Storage::put_blob
s3_put_blob(objects, digest, data) == Store(objects, s3_blob_key(digest), data)

\* S3Storage::delete_blob: DeleteObject succeeds whether the key exists or not
s3_delete_blob(objects, digest) == Remove(objects, s3_blob_key(digest))

\* S3Storage::blob_exists: HeadObject on blob_key(digest)
s3_blob_exists(objects, digest) == s3_blob_key(digest) \in DOMAIN objects

\* S3Storage::get_blob_metadata: HeadObject on blob_key(digest), Err when
\* there is no such object
s3_get_blob_metadata(objects, digest) ==
    IF s3_blob_key(digest) \in DOMAIN objects
    THEN [ok |-> TRUE, size |-> Len(objects[s3_blob_key(digest)])]
    ELSE [ok |-> FALSE, size |-> 0]

\* str::strip_prefix
strip_prefix(s, prefix) == SubSeq(s, Len(prefix) + 1, Len(s))

\* S3Storage::list_all_blobs: every key under "blobs/" (ListObjectsV2 returns
\* them in key order), with the "blobs/" prefix removed
s3_list_all_blobs(objects) ==
    LET keys == Sorted({key \in DOMAIN objects : starts_with(key, Ascii.blobs \o Slash)})
    IN  [i \in 1..Len(keys) |-> strip_prefix(keys[i], Ascii.blobs \o Slash)]

\* FilesystemStorage::list_all_blobs: the file names under blobs/<xx>/, in
\* the order read_dir yields them
fs_list_all_blobs == Orderings(DOMAIN blobs)

\* format!("uploads/{}/chunk-", uuid)
s3_chunk_prefix(uuid) == Ascii.uploads \o Slash \o uuid \o Slash \o ChunkWord \o Dash

\* S3Storage::put_upload_chunk: one object per chunk, at
\* format!("uploads/{}/chunk-{}-{}", uuid, range.0, range.1)
s3_put_upload_chunk(objects, uuid, range, data) ==
    Store(objects, s3_chunk_prefix(uuid) \o to_string(range[1]) \o Dash \o to_string(range[2]),
          data)

RECURSIVE Concat(_, _)
Concat(objects, keys) ==
    IF keys = <<>> THEN <<>> ELSE objects[Head(keys)] \o Concat(objects, Tail(keys))

RECURSIVE RemoveAll(_, _)
RemoveAll(objects, keys) ==
    IF keys = <<>> THEN objects ELSE RemoveAll(Remove(objects, Head(keys)), Tail(keys))

\* S3Storage::complete_upload, chunks.sort(): the keys under
\* "uploads/<uuid>/chunk-", sorted as strings
s3_chunks(objects, uuid) ==
    Sorted({key \in DOMAIN objects : starts_with(key, s3_chunk_prefix(uuid))})

\* S3Storage::complete_upload: the chunk objects are concatenated in the
\* order of their keys, stored through put_blob, and deleted
s3_complete_upload(objects, uuid, digest) ==
    LET chunks == s3_chunks(objects, uuid)
    IN  RemoveAll(s3_put_blob(objects, digest, Concat(objects, chunks)), chunks)

\* the content the client uploads and the (start, end) ranges of the chunks
\* it sends it in
S3Body == <<1, 2, 3, 4, 5, 6, 7, 8, 9, 10, 11>>
S3Ranges == {<<0, 2>>, <<2, 10>>, <<10, 11>>, <<0, 10>>}

\* put_blob(digest, data) on both backends
backends_put_blob(data) ==
    /\ Cardinality(DOMAIN blobs \cup {Sha256(data)}) <= MaxBlobs
    /\ blobs' = fs_put_blob(blobs, Sha256(data), data)
    /\ bucket' = s3_put_blob(bucket, Sha256(data), data)
    /\ last' = Response("put_blob", 0, "")
    /\ UNCHANGED <<now, uploads, manifests, issued, accepted, offpath, gc, birthtime, inflight>>

\* delete_blob(digest) on both backends
backends_delete_blob(digest) ==
    /\ blobs' = fs_delete_blob(blobs, digest)
    /\ bucket' = s3_delete_blob(bucket, digest)
    /\ last' = Response("delete_blob", 0, "")
    /\ UNCHANGED <<now, uploads, manifests, issued, accepted, offpath, gc, birthtime, inflight>>

\* PATCH with Content-Range: bytes <start>-<end - 1>/<total>, served by the
\* upload_chunk handler over S3Storage
s3_upload_chunk(name, uuid, range) ==
    /\ bucket' = s3_put_upload_chunk(bucket, uuid, range, SubSeq(S3Body, range[1] + 1, range[2]))
    /\ last' = RangeResponse("upload_chunk", 202, range[2] - 1)
    /\ UNCHANGED <<now, blobs, uploads, manifests, issued, accepted, offpath, gc, birthtime, inflight>>

\* PUT ?digest= with an empty body, served by the complete_upload handler
\* over S3Storage
s3_finish_upload(name, uuid, digest) ==
    /\ bucket' = s3_complete_upload(bucket, uuid, digest)
    /\ last' = Response("complete_upload", 201, "")
    /\ UNCHANGED <<now, blobs, uploads, manifests, issued, accepted, offpath, gc, birthtime, inflight>>

S3PutBlob == \E data \in Bodies : backends_put_blob(data)
S3DeleteBlob == \E digest \in ClaimedDigests : backends_delete_blob(digest)
S3UploadChunk ==
    \E name \in Repos, uuid \in UUIDs, range \in S3Ranges : s3_upload_chunk(name, uuid, range)
S3FinishUpload ==
    \E name \in Repos, uuid \in UUIDs :
        s3_finish_upload(name, uuid, Sha256(S3Body))

NextS3 ==
    \/ S3PutBlob
    \/ S3DeleteBlob
    \/ S3UploadChunk
    \/ S3FinishUpload

SpecS3 == Init /\ [][NextS3]_vars

----------------------------------------------------------------------------
(* The periodic run over a store some of whose manifest files fail to read *)

\* the manifest files, as <<repository, file name>>
ManifestFiles ==
    UNION {{<<repository, name>> : name \in DOMAIN manifests[repository]} :
              repository \in DOMAIN manifests}

\* the blobs a manifest file references
references_of(file) ==
    LET manifest == serde_json_from_slice(manifests[file[1]][file[2]].data)
    IN  IF manifest.ok THEN extract_blob_references(manifest) ELSE {}

\* GarbageCollector::find_referenced_blobs when reading the files in
\* `unreadable` fails: `if let Ok(Some(..)) = get_manifest(..)` passes over a
\* tag whose read failed, and `if let Ok(manifests) = list_manifests(..)`
\* passes over the whole repository when one read of it failed
find_referenced_blobs_reading(unreadable) ==
    LET by_tag(repository) ==
            UNION {references_of(<<repository, tag>>) :
                      tag \in {t \in Range(fs_list_tags(repository)) :
                                  /\ fs_get_manifest(repository, t).some
                                  /\ <<repository, t>> \notin unreadable}}
        by_digest(repository) ==
            IF \E file \in unreadable : file[1] = repository THEN {}
            ELSE UNION {references_of(<<repository, name>>) :
                           name \in DOMAIN fs_repo_dir(manifests, repository)}
    IN  UNION {by_tag(r) \cup by_digest(r) : r \in Range(fs_list_repositories)}

\* Step 1 with storage errors
gc_mark_reading(g) ==
    /\ gc[g].pc = "mark"
    /\ \E unreadable \in SUBSET ManifestFiles :
          gc' = [gc EXCEPT ![g].referenced = find_referenced_blobs_reading(unreadable),
                           ![g].unread = UNION {references_of(file) : file \in unreadable},
                           ![g].pc = "list"]
    /\ UNCHANGED <<now, blobs, uploads, manifests, issued, accepted, offpath, last, birthtime, inflight, bucket>>

GcMarkReading == \E g \in GCRunners : gc_mark_reading(g)

NextUnreadable ==
    \/ GcPutManifest
    \/ GcPutBlob
    \/ Tick
    \/ SchedulerTick
    \/ GcMarkReading
    \/ GcList
    \/ GcFindOrphaned
    \/ GcDeleteBlob
    \/ GcManifestsStep
    \/ GcReturn

SpecUnreadable == Init /\ [][NextUnreadable]_vars

----------------------------------------------------------------------------
(* The periodic run over a store whose delete_blob may fail *)

\* Step 4 with storage errors: one iteration of the loop of
\* delete_orphaned_blobs, the size is added before delete_blob is called and
\* the count after it returned Ok
gc_delete_blob_erring(g) ==
    LET to_process == blobs_to_process(gc[g].orphaned)
        blob_digest == to_process[gc[g].next]
        metadata == fs_get_blob_metadata(blob_digest)
    IN  /\ gc[g].pc = "delete"
        /\ gc[g].next <= Len(to_process)
        /\ IF gc[g].dry_run
           THEN /\ gc' = [gc EXCEPT ![g].deleted_count = @ + 1, ![g].next = @ + 1]
                /\ UNCHANGED blobs
           ELSE \E deleted \in BOOLEAN :
                   /\ gc' = [gc EXCEPT
                                ![g].bytes_freed = IF metadata.ok THEN @ + metadata.size ELSE @,
                                ![g].deleted_count = IF deleted THEN @ + 1 ELSE @,
                                ![g].next = @ + 1,
                                ![g].removed = IF deleted
                                               THEN @ \cup ({blob_digest} \cap DOMAIN blobs)
                                               ELSE @]
                   /\ blobs' = IF deleted THEN fs_delete_blob(blobs, blob_digest) ELSE blobs
        /\ UNCHANGED <<now, uploads, manifests, issued, accepted, offpath, last, birthtime, inflight, bucket>>

GcDeleteBlobErring == \E g \in GCRunners : gc_delete_blob_erring(g)

NextAccounting ==
    \/ GcPutBlob
    \/ Tick
    \/ SchedulerTick
    \/ GcMark
    \/ GcList
    \/ GcFindOrphaned
    \/ GcDeleteBlobErring
    \/ GcManifestsStep
    \/ GcReturn

SpecAccounting == Init /\ [][NextAccounting]_vars

----------------------------------------------------------------------------
(* Claims *)

\* C1: a PUT finalizer whose ?digest= differs from the SHA-256 of the bytes
\* accepted for the session fails, and the blob at that digest (its
\* existence and its bytes) is the same after the request as before it.
C1_MismatchCommitFails ==
    [][\A name \in Repos, uuid \in UUIDs, digest \in ClaimedDigests, body \in Bodies :
          (/\ complete_upload(name, uuid, digest, body)
           /\ Sha256(accepted[uuid] \o body) # digest)
          => /\ last'.status # 201
             /\ fs_blob_exists(digest)' = fs_blob_exists(digest)
             /\ fs_get_blob(digest)' = fs_get_blob(digest)]_vars

\* C2 (I1): every blob stored under key D has bytes whose SHA-256 is D.
C2_BlobBytesHashToKey ==
    \A digest \in DOMAIN blobs : Sha256(blobs[digest].data) = digest

\* C3: start, then PATCHes without Content-Range carrying the chunks of B in
\* order (the last chunk optionally in the PUT body), then
\* PUT ?digest=sha256(B) succeeds, and get_blob(sha256(B)) then returns B.
C3_UploadRoundTrip ==
    [][\A name \in Repos, uuid \in UUIDs, body \in Bodies :
          LET B == accepted[uuid] \o body
          IN  (/\ uuid \in issued
               /\ ~offpath[uuid]
               /\ complete_upload(name, uuid, Sha256(B), body))
              => /\ last'.status = 201
                 /\ get_blob(name, Sha256(B))'.status = 200
                 /\ get_blob(name, Sha256(B))'.data = B]_vars

\* C4: after a successful PUT of M at (R, T), get_manifest(R, T) returns M
\* and get_manifest(R, sha256(M)) returns M.
C4_ManifestByTagAndDigest ==
    [][\A name \in Repos, tag \in Tags, content_type \in ContentTypes, M \in ManifestBodies :
          (M # <<>> /\ put_manifest(name, tag, content_type, M) /\ last'.status = 201)
          => /\ get_manifest(name, tag)'.status = 200
             /\ get_manifest(name, tag)'.data = M
             /\ get_manifest(name, Sha256(M))'.status = 200
             /\ get_manifest(name, Sha256(M))'.data = M]_vars

\* C5: when M1 was PUT at (R, T) and then M2 # M1 is PUT at (R, T),
\* get_manifest(R, T) returns M2 and get_manifest(R, sha256(M1)) returns M1.
C5_TagReplacementKeepsHistory ==
    [][\A name \in Repos, tag \in Tags, content_type \in ContentTypes,
          M1 \in ManifestBodies, M2 \in ManifestBodies :
          (/\ M1 # M2
           /\ M1 # <<>>
           /\ M2 # <<>>
           /\ get_manifest(name, tag).status = 200
           /\ get_manifest(name, tag).data = M1
           /\ put_manifest(name, tag, content_type, M2)
           /\ last'.status = 201)
          => /\ get_manifest(name, tag)'.status = 200
             /\ get_manifest(name, tag)'.data = M2
             /\ get_manifest(name, Sha256(M1))'.status = 200
             /\ get_manifest(name, Sha256(M1))'.data = M1]_vars

\* the blobs a step takes out of the store
Deleted == DOMAIN blobs \ DOMAIN blobs'

\* C6: under any interleaving of a GC run with manifest PUTs and uploads, a
\* blob the run deletes is, at the moment of deletion, referenced
\* (config, layers, manifests, foreignLayers) by no stored manifest.
C6_NoReferencedBlobDeleted ==
    [][\A g \in GCRunners :
          gc_delete_blob(g) => Deleted \cap find_referenced_blobs = {}]_vars

\* C7: a blob the run deletes was committed at least grace_period before the
\* moment it is deleted (a run begins no later than it deletes, so a blob
\* committed less than grace_period before the run is never swept).
C7_GracePeriod ==
    [][\A g \in GCRunners :
          gc_delete_blob(g)
          => \A d \in Deleted : blobs[d].committed + grace_period_hours <= now]_vars

\* C8 (P5): when a run that is not a dry run returns, every blob a stored
\* manifest references that the run took out of the store is in the store,
\* and every blob no manifest references (at the mark and now) that was
\* committed more than grace_period before the run is gone unless the run
\* counted max_blobs_per_run deletions.
C8_AfterRun ==
    \A g \in GCRunners :
        (gc[g].pc = "return" /\ ~gc[g].dry_run)
        => /\ (find_referenced_blobs \cap gc[g].removed) \subseteq DOMAIN blobs
           /\ \A d \in DOMAIN blobs :
                 (/\ d \notin find_referenced_blobs
                  /\ d \notin gc[g].referenced
                  /\ blobs[d].committed + grace_period_hours < gc[g].started)
                 => gc[g].deleted_count = max_blobs_per_run

\* C9: whatever the number of orphaned blobs, one run counts at most
\* max_blobs_per_run deletions and takes at most that many blobs out of the
\* store.
C9_AtMostMaxBlobsPerRun ==
    \A g \in GCRunners :
        /\ gc[g].deleted_count <= max_blobs_per_run
        /\ Cardinality(gc[g].removed) <= max_blobs_per_run

\* a completed run that found more orphans than the limit and deleted
\* exactly the limit
C9_Witness ==
    \E g \in GCRunners :
        /\ gc[g].pc = "done"
        /\ ~gc[g].dry_run
        /\ gc[g].orphaned_blobs_found > max_blobs_per_run
        /\ gc[g].deleted_count = max_blobs_per_run
        /\ Cardinality(gc[g].removed) = max_blobs_per_run

\* C10: across the scheduler and POST /admin/gc, at most one run is active at
\* any time.
C10_SingleFlight == Cardinality({g \in GCRunners : Active(g)}) <= 1

\* the bytes of the staging file of a session (none when there is no file)
staged(uuid) == IF uuid \in DOMAIN uploads THEN uploads[uuid].data ELSE <<>>

\* C11: a PATCH whose Content-Range start is not the session's current
\* offset (the bytes accepted so far, the length of the staging data) is
\* answered RANGE_INVALID, writes nothing to the staging data and leaves the
\* offset as it was.
C11_WrongOffsetRejected ==
    [][\A name \in Repos, uuid \in UUIDs, body \in Bodies :
          \A header \in RangeHeaders(body) :
             (/\ header.kind = "bytes"
              /\ header.start # Len(accepted[uuid])
              /\ header.start # Len(staged(uuid))
              /\ upload_chunk(name, uuid, header, body))
             => /\ last'.code = "RANGE_INVALID"
                /\ uploads' = uploads
                /\ accepted' = accepted]_vars

\* C12: in a session of PATCHes without Content-Range, each PATCH of a
\* non-empty body appends at the current offset (the staging data is the
\* bytes accepted so far), its response carries Range 0-(offset-1), and GET
\* status reports that same offset.
C12_OffsetIsBytesAccepted ==
    [][\A name \in Repos, uuid \in UUIDs, body \in Bodies :
          (/\ uuid \in issued
           /\ ~offpath[uuid]
           /\ body # <<>>
           /\ upload_chunk(name, uuid, NoRange, body))
          => /\ Len(accepted'[uuid]) = Len(accepted[uuid]) + Len(body)
             /\ staged(uuid)' = accepted'[uuid]
             /\ last'.status = 202
             /\ last'.range = Len(accepted'[uuid]) - 1
             /\ get_upload_status(name, uuid)'.status = 204
             /\ get_upload_status(name, uuid)'.range = Len(accepted'[uuid]) - 1]_vars

\* C13: DELETE of a tag T that serves M leaves get_manifest(R, T) absent
\* (MANIFEST_UNKNOWN), get_manifest(R, sha256(M)) still returning M, and
\* every other tag of R as it was.
C13_TagDeleteRemovesOnlyPointer ==
    [][\A name \in Repos, tag \in Tags, M \in ManifestBodies :
          (/\ M # <<>>
           /\ get_manifest(name, tag).status = 200
           /\ get_manifest(name, tag).data = M
           /\ delete_manifest(name, tag))
          => /\ get_manifest(name, tag)'.status = 404
             /\ get_manifest(name, tag)'.code = "MANIFEST_UNKNOWN"
             /\ get_manifest(name, Sha256(M))'.status = 200
             /\ get_manifest(name, Sha256(M))'.data = M
             /\ \A other \in Tags \ {tag} :
                   get_manifest(name, other)' = get_manifest(name, other)]_vars

\* C14: DELETE by digest sha256(M) while tag T serves M leaves T dangling: a
\* GET through T answers MANIFEST_UNKNOWN.
C14_DigestDeleteDanglesTags ==
    [][\A name \in Repos, tag \in Tags, M \in ManifestBodies :
          (/\ M # <<>>
           /\ get_manifest(name, tag).status = 200
           /\ get_manifest(name, tag).data = M
           /\ delete_manifest(name, Sha256(M)))
          => /\ get_manifest(name, tag)'.status = 404
             /\ get_manifest(name, tag)'.code = "MANIFEST_UNKNOWN"]_vars

\* C15: blobs are immutable: a request after which get_blob(D) still
\* returns bytes returns the bytes it returned before, whatever the request
\* (PATCH, PUT ?digest=D, put_blob, delete).
C15_BlobsImmutable ==
    [][\A name \in Repos, digest \in ClaimedDigests :
          (get_blob(name, digest).status = 200 /\ get_blob(name, digest)'.status = 200)
          => get_blob(name, digest)'.data = get_blob(name, digest).data]_vars

\* a reference written as a digest ("sha256:...") rather than a tag
IsDigestReference(reference) ==
    /\ Len(reference) >= Len(Sha256Prefix)
    /\ SubSeq(reference, 1, Len(Sha256Prefix)) = Sha256Prefix

\* C16 (I2): every manifest stored in a repository under a digest reference
\* D has bytes whose SHA-256 is D.
C16_ManifestBytesHashToDigest ==
    \A repo \in DOMAIN manifests :
        \A reference \in DOMAIN manifests[repo] :
            IsDigestReference(reference)
            => Sha256(manifests[repo][reference].data) = reference

\* the first n elements of a sorted listing that are strictly greater than
\* the ?last= value (all elements when it is absent)
ExpectedPage(listing, n, last_seen) ==
    LET after == IF last_seen.given
                 THEN Filter(listing, {x \in Range(listing) : LexLess(last_seen.value, x)})
                 ELSE listing
    IN  SubSeq(after, 1, IF Len(after) > page_size(n) THEN page_size(n) ELSE Len(after))

\* the ?n= values whose meaning the contract fixes (a number, or absent: 100)
StatedNParams == {n \in NParams : n.kind # "junk"}

\* C17: for the catalog and for every tag listing, every ?last= value (in the
\* listing or not, up to values no element exceeds) and every ?n=, the page
\* is exactly the first n elements strictly greater than last; n defaults
\* to 100.
C17_PageContent ==
    \A n \in StatedNParams, last_seen \in LastParams :
        /\ list_repositories(n, last_seen).page = ExpectedPage(fs_list_repositories, n, last_seen)
        /\ \A name \in CatalogRepos :
              list_tags(name, n, last_seen).page = ExpectedPage(fs_list_tags(name), n, last_seen)

\* a listing is truncated when more elements follow ?last= than the page holds
Truncated(listing, n, last_seen) ==
    LET after == IF last_seen.given
                 THEN Filter(listing, {x \in Range(listing) : LexLess(last_seen.value, x)})
                 ELSE listing
    IN  Len(after) > page_size(n)

\* the repositories a client collects that starts at last_seen and follows
\* the next link of each response for as long as there is one
RECURSIVE CatalogWalk(_, _, _)
CatalogWalk(n, last_seen, fuel) ==
    LET response == list_repositories(n, last_seen)
    IN  IF response.link.given /\ fuel > 0
        THEN response.page \o CatalogWalk(n, response.link, fuel - 1)
        ELSE response.page

\* the page sizes a walk can advance with
WalkNParams == {n \in StatedNParams : page_size(n) >= 1}

\* C18: a catalog response carries a next link exactly when the listing was
\* truncated, and a client that starts without ?last= and follows the links
\* visits every repository once, in lexicographic order, ending on a page
\* with no link.
C18_PaginationWalk ==
    \A n \in WalkNParams :
        /\ \A last_seen \in LastParams :
              list_repositories(n, last_seen).link.given
              <=> Truncated(fs_list_repositories, n, last_seen)
        /\ CatalogWalk(n, NoLast, Cardinality(CatalogRepos)) = fs_list_repositories

\* the endpoints open to everyone: /health, /readyz, /metrics and GET /v2/
Public(req) ==
    \/ req.path \in {<<Ascii.health>>, <<Ascii.readyz>>, <<Ascii.metrics>>}
    \/ req.method = "GET" /\ req.path = Path_v2

\* the header names a user
ValidAuthorization(authorization) ==
    authorization.scheme \in {"Bearer", "Basic"} /\ authorization.valid

\* C19: a request to a non-public endpoint that carries no valid
\* Authorization is answered 401 by the middleware, reaches no handler and
\* leaves the stores as they were (the 404 and 405 of the router itself,
\* given for a path or a method that has no handler, are set aside).
C19_UnauthorizedNeverReachesHandler ==
    [][\A req \in Requests :
          (/\ ~Public(req)
           /\ ~ValidAuthorization(req.authorization)
           /\ serve(req)
           /\ last'.op # "router")
          => /\ last'.op = "auth_middleware"
             /\ last'.status = 401
             /\ UNCHANGED <<blobs, uploads, manifests, issued>>]_vars

\* the paths and methods whose scope the contract states
StatedScopePaths ==
    {<<Ascii.v2, name, Ascii.manifests, RouterTag>> : name \in Repos}
    \cup {<<Ascii.v2, name, Ascii.blobs, Sha256(<<1>>)>> : name \in Repos}
    \cup {<<Ascii.v2, name, Ascii.blobs, Ascii.uploads, <<>>>> : name \in Repos}
    \cup {<<Ascii.v2, name, Ascii.blobs, Ascii.uploads, uuid>> : name \in Repos, uuid \in UUIDs}
    \cup {Path_catalog}
StatedScopeMethods == {"GET", "HEAD", "PUT", "POST", "PATCH", "DELETE"}

\* the scope the contract states for a path and a method
StatedScope(path, method) ==
    IF path = Path_catalog
    THEN Ascii.registry_catalog
    ELSE IF Len(path) = 5 /\ path[3] = Ascii.blobs /\ path[4] = Ascii.uploads
    THEN format_scope(path[2], Ascii.push)
    ELSE CASE method \in {"GET", "HEAD"} -> format_scope(path[2], Ascii.pull)
           [] method \in {"PUT", "POST", "PATCH"} -> format_scope(path[2], Ascii.push)
           [] method = "DELETE" -> format_scope(path[2], Ascii.delete)

\* C20: the required scope of /v2/<repo>/manifests/* and
\* /v2/<repo>/blobs/<digest> is repository:<repo>:pull for GET|HEAD, :push
\* for PUT|POST|PATCH and :delete for DELETE; of /v2/<repo>/blobs/uploads/*
\* it is repository:<repo>:push for every method; of /v2/_catalog it is
\* registry:catalog:* (stated over the requests that have a handler).
C20_RequiredScope ==
    [][\A req \in Requests :
          (/\ req.path \in StatedScopePaths
           /\ req.method \in StatedScopeMethods
           /\ serve(req)
           /\ last'.op # "router")
          => determine_required_scope(req.path, req.method)
             = StatedScope(req.path, req.method)]_vars

\* the middleware decided the request of an authenticated user
ScopeChecked == last.op = "auth_middleware" /\ last.code # "UNAUTHORIZED"

\* the stated rule: the scope is the required one, or ends in * and the
\* required scope starts with what stands before that *
StatedMatch(scope, required) ==
    \/ scope = required
    \/ /\ Len(scope) >= 1
       /\ scope[Len(scope)] = 42
       /\ Len(required) >= Len(scope) - 1
       /\ \A i \in 1..(Len(scope) - 1) : required[i] = scope[i]

\* the grants on the one repository name
GrantsOn(name) == {format_scope(name, action) : action \in {Ascii.pull, Ascii.push, Ascii.delete, Ascii.star}}

\* a grant on one repository never authorizes another repository
NoCrossRepository ==
    \A granted \in ScopeRepos, asked \in ScopeRepos :
        (/\ granted # asked
         /\ last.scopes # {}
         /\ last.scopes \subseteq GrantsOn(granted)
         /\ last.required_scope \in GrantsOn(asked))
        => last.code = "DENIED"

\* C21 as stated: the request is let through iff some granted scope
\* matches the required scope by the stated rule, and a grant on one
\* repository never authorizes another repository.
C21_ScopeMatchingAsStated ==
    ScopeChecked
    => /\ last.code = "next"
          <=> \E scope \in last.scopes : StatedMatch(scope, last.required_scope)
       /\ NoCrossRepository

\* C21 (amended): the request is let through iff some granted scope equals
\* the required scope, or is registry:* (which grants everything), or ends
\* in * and the required scope starts with the part before that *; a grant
\* on one repository never authorizes another repository.
C21_ScopeMatching ==
    ScopeChecked
    => /\ last.code = "next"
          <=> \E scope \in last.scopes :
                 scope = Ascii.registry_all \/ StatedMatch(scope, last.required_scope)
       /\ last.code = "next" => last.status = 0
       /\ last.code # "next" => last.code = "DENIED" /\ last.status = 403
       /\ NoCrossRepository

\* a grant ending in * let a request through, and a grant on another
\* repository was refused
C21_Witness ==
    /\ ScopeChecked
    /\ last.code = "next"
    /\ last.scopes = {format_scope(<<97>>, Ascii.star)}
    /\ last.required_scope = format_scope(<<97>>, Ascii.pull)

\* the status the contract gives each wire error code
StatedStatus(code) ==
    CASE code \in {"NAME_UNKNOWN", "MANIFEST_UNKNOWN", "BLOB_UNKNOWN", "BLOB_UPLOAD_UNKNOWN"} -> 404
      [] code = "UNAUTHORIZED" -> 401
      [] code = "DENIED" -> 403
      [] code \in {"UNSUPPORTED", "DIGEST_INVALID", "NAME_INVALID", "MANIFEST_INVALID",
                   "TAG_INVALID", "BLOB_UPLOAD_INVALID"} -> 400
      [] code = "SIZE_INVALID" -> 413
      [] code = "RANGE_INVALID" -> 416
      [] code = "UNKNOWN" -> 500

WireCodes ==
    {"NAME_UNKNOWN", "MANIFEST_UNKNOWN", "BLOB_UNKNOWN", "BLOB_UPLOAD_UNKNOWN",
     "UNAUTHORIZED", "DENIED", "UNSUPPORTED", "DIGEST_INVALID", "NAME_INVALID",
     "MANIFEST_INVALID", "TAG_INVALID", "BLOB_UPLOAD_INVALID", "SIZE_INVALID",
     "RANGE_INVALID", "UNKNOWN"}

\* C22: an error response carries the status stated for its code: 404 for
\* the *_UNKNOWN codes, 401 UNAUTHORIZED, 403 DENIED, 400 UNSUPPORTED and
\* *_INVALID, 413 SIZE_INVALID, 416 RANGE_INVALID, 500 UNKNOWN.
C22_ErrorStatus ==
    last.code \in WireCodes => last.status = StatedStatus(last.code)

\* C23: a DELETE of an upload id (open, already cancelled or never started)
\* returns 204, and a second DELETE of the same id returns 204 again and
\* leaves the staging area as the first left it.
C23_CancelIdempotent ==
    [][\A name \in Repos, uuid \in UUIDs :
          cancel_upload(name, uuid)
          => /\ last'.status = 204
             /\ fs_cancel_upload(uploads', uuid).ok
             /\ fs_cancel_upload(uploads', uuid).uploads = uploads'
             /\ blobs' = blobs /\ manifests' = manifests]_vars

\* an open session that had received bytes was cancelled
C23_Witness ==
    /\ last.op = "cancel_upload"
    /\ last.status = 204
    /\ \E uuid \in issued : offpath[uuid] /\ uuid \notin DOMAIN uploads

\* the bytes the manifest store holds, file times left aside
ManifestData(dir) ==
    [repo \in DOMAIN dir |-> [reference \in DOMAIN dir[repo] |-> dir[repo][reference].data]]

\* C24: a PUT of the bytes M at a reference that holds M from an earlier
\* PUT answers 201 again, with the digest of the stored bytes, and leaves
\* the stored manifests as they were.
C24_PutManifestIdempotent ==
    [][\A name \in Repos, reference \in Tags, body \in RepeatBodies :
          (/\ fs_get_manifest(name, reference).some
           /\ fs_get_manifest(name, reference).data = body
           /\ put_manifest(name, reference, OciManifest, body))
          => /\ last'.status = 201
             /\ get_manifest(name, reference)'.digest = get_manifest(name, reference).digest
             /\ ManifestData(manifests') = ManifestData(manifests)]_vars

\* a manifest was written a second time, later than the first
C24_Witness ==
    /\ last.op = "put_manifest"
    /\ last.status = 201
    /\ \E repo \in DOMAIN manifests : \E reference \in DOMAIN manifests[repo] :
          manifests[repo][reference].modified > manifests[repo][reference].created

\* the media types a manifest may be written with
WritableTypes == {OciManifest, OciIndex, DockerManifestV2, DockerManifestList, OciManifestUpper}

\* C25: a manifest PUT is accepted iff its Content-Type is, whatever the
\* case, one of the OCI image manifest, OCI image index, Docker v2 manifest
\* and Docker manifest list types; the Docker v1 type and every other type
\* are rejected and nothing is stored.
C25_WritableMediaTypes ==
    [][\A name \in Repos, reference \in References, content_type \in ContentTypes,
          body \in ManifestBodies :
          put_manifest(name, reference, content_type, body)
          => IF content_type \in WritableTypes
             THEN last'.status = 201 /\ fs_get_manifest(name, reference)'.data = body
             ELSE last'.status = 400 /\ manifests' = manifests]_vars

\* the blobs a run listed that are in the store, unreferenced and younger
\* than the grace period
InGraceOrphans(g) ==
    {d \in Range(gc[g].all_blobs) \cap DOMAIN blobs :
        /\ d \notin gc[g].referenced
        /\ created_or_modified(blobs[d]) + grace_period_hours > now}

\* C26: a run counts the unreferenced blobs younger than the grace period
\* in orphaned_blobs_found, and leaves them in the store.
C26_InGraceOrphanCounted ==
    \A g \in GCRunners :
        gc[g].pc = "return"
        => gc[g].orphaned_blobs_found >= Cardinality(InGraceOrphans(g))

\* the bytes of the blobs of S that the store holds
RECURSIVE SizeSum(_)
SizeSum(S) ==
    IF S = {} THEN 0
    ELSE LET d == CHOOSE x \in S : TRUE
         IN  Len(blobs[d].data) + SizeSum(S \ {d})

\* C27: a dry run deletes no blob, and accounts in bytes_freed the bytes of
\* the blobs it would have deleted.
C27_DryRunAccountsBytes ==
    \A g \in GCRunners :
        (gc[g].pc = "return" /\ gc[g].dry_run)
        => /\ gc[g].removed = {}
           /\ gc[g].bytes_freed
                  >= SizeSum(Range(blobs_to_process(gc[g].orphaned)) \cap DOMAIN blobs)

\* a manifest file named by a digest that no tag of the repository resolves
\* to, and that had outlived the grace period when the run began
OrphanedManifestsLeft(g) ==
    {<<repo, d>> \in UNION {{<<r, f>> : f \in DOMAIN manifests[r]} : r \in DOMAIN manifests} :
        /\ IsDigestReference(d)
        /\ \A tag \in DOMAIN manifests[repo] :
              ~IsDigestReference(tag) => Sha256(manifests[repo][tag].data) # d
        /\ manifests[repo][d].modified + grace_period_hours < gc[g].started
        /\ manifests[repo][d].created + grace_period_hours < gc[g].started}

\* C28: a run deletes every manifest stored at a digest that no tag of its
\* repository resolves to and that is older than the grace period.
C28_OrphanManifestsDeleted ==
    \A g \in GCRunners :
        (gc[g].pc = "return" /\ ~gc[g].dry_run) => OrphanedManifestsLeft(g) = {}

\* C29: a POST to /v2/<repo>/blobs/uploads/ with ?digest=D and a body B
\* whose SHA-256 is D makes the blob readable at D with the bytes B; with
\* another D it creates no blob.
C29_MonolithicUpload ==
    [][\A name \in Repos, uuid \in UUIDs, digest \in ClaimedDigests, body \in Bodies :
          post_upload(name, uuid, digest, body)
          => IF Sha256(body) = digest
             THEN /\ get_blob(name, digest)'.status = 200
                  /\ get_blob(name, digest)'.data = body
             ELSE blobs' = blobs]_vars

\* a request of the client on the session
SessionRequest(uuid) ==
    \E name \in Repos :
        \/ upload_chunk(name, uuid, NoRange, <<1>>)
        \/ complete_upload(name, uuid, Sha256(accepted[uuid]), <<>>)

\* C30: the staging data of an upload session that receives no further
\* request is eventually removed from storage.
C30_AbandonedUploadsReclaimed ==
    \A uuid \in UUIDs :
        <>[][~SessionRequest(uuid)]_vars => <>[](uuid \notin DOMAIN uploads)

\* C31: the status of an upload id reads 204 with offset 0 right after
\* start_upload returned it, and a PATCH on an id that start_upload never
\* returned fails with BLOB_UPLOAD_UNKNOWN and creates no staging data and
\* no blob.
C31_UploadLifecycle ==
    [][/\ \A name \in Repos, uuid \in UUIDs :
            start_upload(name, uuid)
            => /\ get_upload_status(name, uuid)'.status = 204
               /\ get_upload_status(name, uuid)'.range = 0
       /\ \A name \in Repos, uuid \in UUIDs, body \in Bodies :
            \A header \in RangeHeaders(body) :
                (uuid \notin issued /\ upload_chunk(name, uuid, header, body))
                => /\ last'.code = "BLOB_UPLOAD_UNKNOWN"
                   /\ uploads' = uploads
                   /\ blobs' = blobs]_vars

\* the store after the handler of request r ran alone, start to end
Serially(store, r) ==
    CASE r.op = "upload_chunk" ->
            [uploads |-> fs_put_upload_chunk(store.uploads, r.key, r.range, r.body),
             blobs |-> store.blobs]
      [] r.op = "complete_upload" ->
            LET chunked == IF r.body # <<>>
                          THEN fs_put_upload_chunk(store.uploads, r.key, r.range, r.body)
                          ELSE store.uploads
                done == fs_complete_upload(chunked, store.blobs, r.key, r.digest)
            IN  [uploads |-> done.uploads, blobs |-> done.blobs]
      [] r.op = "cancel_upload" ->
            [uploads |-> fs_cancel_upload(store.uploads, r.key).uploads, blobs |-> store.blobs]

\* the bytes a store holds, staged and committed
Contents(store) ==
    [uploads |-> [u \in DOMAIN store.uploads |-> store.uploads[u].data],
     blobs |-> [d \in DOMAIN store.blobs |-> store.blobs[d].data]]

\* C32: when two mutating requests on one upload id were served side by
\* side, the staged and committed bytes are those one of the two serial
\* orders leaves.
C32_PerUploadSerialization ==
    AllDone =>
        \E c \in Clients, d \in Clients :
            /\ c # d
            /\ Contents([uploads |-> uploads, blobs |-> blobs])
               = Contents(Serially(Serially(inflight[c].base, inflight[c]), inflight[d]))

\* the manifest the tag of request r resolved to when r arrived
Before(r) == r.base[r.key[1]][r.key[2]].data
Existing(r) == r.key[1] \in DOMAIN r.base /\ r.key[2] \in DOMAIN r.base[r.key[1]]

\* C33: a GET of a tag served beside a PUT over an existing manifest
\* returns the old or the new manifest in full, and after two PUTs to one
\* tag served side by side the tag resolves to one of the two in full.
C33_TagWritesAtomic ==
    \A c \in Clients, d \in Clients :
        LET r == inflight[c]
            w == inflight[d]
        IN  (c # d /\ r.key = w.key /\ w.op = "put_manifest" /\ Existing(r)) =>
               /\ (r.op = "get_manifest" /\ r.pc = "done")
                  => /\ r.read.status = 200
                     /\ r.read.data \in {Before(r), w.body}
               /\ (r.op = "put_manifest" /\ r.pc = "done" /\ w.pc = "done")
                  => get_manifest(r.key[1], r.key[2]).data \in {r.body, w.body}

\* C34: a PUT finalizer whose ?digest= differs from the SHA-256 of the bytes
\* accepted for an existing session leaves the staging file as it was, and
\* the status of the session still reads 204.
C34_MismatchKeepsSession ==
    [][\A name \in Repos, uuid \in UUIDs, digest \in ClaimedDigests, body \in Bodies :
          (/\ complete_upload(name, uuid, digest, body)
           /\ uuid \in DOMAIN uploads
           /\ Sha256(accepted[uuid] \o body) # digest)
          => /\ uploads' = uploads
             /\ get_upload_status(name, uuid)'.status = 204]_vars

\* C35: the tag list of a repository holds every tag that resolves to a
\* manifest, holds no digest-form reference, and is strictly ascending (so
\* sorted and without duplicates).
C35_ListTagsExact ==
    \A name \in Repos :
        LET tags == fs_list_tags(name)
        IN  /\ \A tag \in Tags :
                  get_manifest(name, tag).status = 200 => \E i \in 1..Len(tags) : tags[i] = tag
            /\ \A i \in 1..Len(tags) : ~IsDigestReference(tags[i])
            /\ \A i \in 1..Len(tags), j \in 1..Len(tags) : i < j => LexLess(tags[i], tags[j])

\* the digest strings a client or the collector may hand to the S3 backend
S3Digests == ClaimedDigests \cup {Sha256(S3Body)} \cup Range(s3_list_all_blobs(bucket))

\* C36: on either backend list_all_blobs returns exactly the digest strings
\* D for which blob_exists(D) holds, and get_blob_metadata accepts each of
\* them.
C36_BlobListingEquivalent ==
    /\ \A listing \in fs_list_all_blobs :
          /\ Range(listing) = {digest \in DOMAIN blobs \cup ClaimedDigests : fs_blob_exists(digest)}
          /\ \A digest \in Range(listing) : fs_get_blob_metadata(digest).ok
    /\ LET listing == s3_list_all_blobs(bucket)
       IN  /\ Range(listing) = {digest \in S3Digests : s3_blob_exists(bucket, digest)}
           /\ \A digest \in Range(listing) : s3_get_blob_metadata(bucket, digest).ok

\* the byte ranges of the chunk objects of an upload
ChunkRanges(uuid) ==
    {range \in S3Ranges :
        s3_chunk_prefix(uuid) \o to_string(range[1]) \o Dash \o to_string(range[2])
            \in DOMAIN bucket}

\* the ranges follow one another from offset 0 without gap or overlap
Contiguous(ranges) ==
    /\ ranges # {}
    /\ \A r \in ranges : r[1] = 0 \/ \E q \in ranges : q[2] = r[1]
    /\ \A r \in ranges, q \in ranges : r # q => r[1] # q[1] /\ r[2] # q[2]

\* the end of the last range
Extent(ranges) == CHOOSE end \in {r[2] : r \in ranges} : \A r \in ranges : r[2] <= end

\* C37: on the S3 backend complete_upload over chunks with contiguous byte
\* ranges stores the chunks concatenated in ascending order of their start
\* offsets and removes every chunk object of the upload.
C37_CommitOrder ==
    [][\A name \in Repos, uuid \in UUIDs, digest \in {Sha256(S3Body)} :
          (s3_finish_upload(name, uuid, digest) /\ Contiguous(ChunkRanges(uuid)))
          => /\ s3_blob_exists(bucket, digest)'
             /\ bucket'[s3_blob_key(digest)] = SubSeq(S3Body, 1, Extent(ChunkRanges(uuid)))
             /\ s3_chunks(bucket, uuid)' = <<>>]_vars

\* C38: the scope check lets a user authenticated through Basic credentials
\* read (GET, HEAD) and write (PUT, POST, PATCH) the manifests and blobs of
\* every repository, and answers 403 to the user's DELETE.
C38_BasicUserPullPush ==
    [][\A req \in BasicRequests :
          authorize(req)
          => /\ req.method \in {"GET", "HEAD", "PUT", "POST", "PATCH"} => last'.code = "next"
             /\ req.method = "DELETE" => last'.code = "DENIED" /\ last'.status = 403]_vars

\* C39: a run deletes no blob referenced by a manifest that it failed to
\* read during its mark phase.
C39_UnreadableManifestsKeepBlobs ==
    \A g \in GCRunners : gc[g].removed \cap gc[g].unread = {}

\* the size of the blob put at a digest: put_blob is the only writer of the
\* store here, so the bytes at a digest are those the digest was made from
RECURSIVE PutSizeSum(_)
PutSizeSum(S) ==
    IF S = {} THEN 0
    ELSE LET d == CHOOSE x \in S : TRUE
         IN  (Len(d) - Len(Sha256Prefix)) + PutSizeSum(S \ {d})

\* C40: at the end of a run that is no dry run, blobs_deleted is the number
\* of blobs the run removed from the store and bytes_freed is the sum of
\* their sizes.
C40_AccountingExact ==
    \A g \in GCRunners :
        (gc[g].pc \in {"return", "done"} /\ ~gc[g].dry_run)
        => /\ gc[g].deleted_count = Cardinality(gc[g].removed)
           /\ gc[g].bytes_freed = PutSizeSum(gc[g].removed)

====
